---- MODULE Spec2Model ----
(***************************************************************************)
(* Model of the sheet-to-WordPress autoposter: the sheet scan              *)
(* (get_eligible_rows) and the interactive batch loop (main).              *)
(*                                                                         *)
(* Text is modelled as a sequence of one-character strings, so that        *)
(* upper(), strip(), split(',') and the URL regular expressions are        *)
(* computed character by character as the Python code computes them.       *)
(***************************************************************************)
EXTENDS Integers, Sequences, FiniteSets, TLC

\* A text is a sequence of characters.  Python's None stands where the code
\* only tests truthiness (if not story_url, row.get('image_url')): None and
\* the empty string are both the empty sequence.
NoText == <<>>

(***************************************************************************)
(* Strings                                                                 *)
(***************************************************************************)
LowerLetters ==
  <<"a","b","c","d","e","f","g","h","i","j","k","l","m",
    "n","o","p","q","r","s","t","u","v","w","x","y","z">>

UpperLetters ==
  <<"A","B","C","D","E","F","G","H","I","J","K","L","M",
    "N","O","P","Q","R","S","T","U","V","W","X","Y","Z">>

Digits == {"0","1","2","3","4","5","6","7","8","9"}

\* \s of the re module and the characters str.strip() removes.
Whitespace == {" ", "\t", "\n", "\r"}

\* the upper-case letter of each lower-case letter
UpperTable ==
  [c \in {LowerLetters[i] : i \in 1..Len(LowerLetters)} |->
     UpperLetters[CHOOSE i \in 1..Len(LowerLetters) : LowerLetters[i] = c]]

UpperChar(c) == IF c \in DOMAIN UpperTable THEN UpperTable[c] ELSE c

\* str.upper()
Upper(s) == SubSeq([i \in 1..Len(s) |-> UpperChar(s[i])], 1, Len(s))

\* str.strip()
Strip(s) ==
  IF \A i \in 1..Len(s) : s[i] \in Whitespace
  THEN <<>>
  ELSE LET first == CHOOSE i \in 1..Len(s) :
                      /\ s[i] \notin Whitespace
                      /\ \A j \in 1..(i-1) : s[j] \in Whitespace
           last  == CHOOSE i \in 1..Len(s) :
                      /\ s[i] \notin Whitespace
                      /\ \A j \in (i+1)..Len(s) : s[j] \in Whitespace
       IN SubSeq(s, first, last)

\* s[from:] starts with the literal p
StartsAt(s, from, p) ==
  /\ from >= 1
  /\ from + Len(p) - 1 <= Len(s)
  /\ SubSeq(s, from, from + Len(p) - 1) = p

RECURSIVE SplitFrom(_, _, _)
SplitFrom(s, from, sep) ==
  IF \E i \in from..Len(s) : s[i] = sep
  THEN LET i == CHOOSE k \in from..Len(s) :
                  s[k] = sep /\ \A j \in from..(k-1) : s[j] # sep
       IN <<SubSeq(s, from, i-1)>> \o SplitFrom(s, i+1, sep)
  ELSE <<SubSeq(s, from, Len(s))>>

\* [part.strip() for part in s.split(',')]
SplitCommaStrip(s) ==
  LET parts == SplitFrom(s, 1, ",") IN [i \in 1..Len(parts) |-> Strip(parts[i])]

\* the lower-case letter of each upper-case letter
LowerTable ==
  [c \in {UpperLetters[i] : i \in 1..Len(UpperLetters)} |->
     LowerLetters[CHOOSE i \in 1..Len(UpperLetters) : UpperLetters[i] = c]]

LowerChar(c) == IF c \in DOMAIN LowerTable THEN LowerTable[c] ELSE c

\* str.lower()
Lower(s) == SubSeq([i \in 1..Len(s) |-> LowerChar(s[i])], 1, Len(s))

\* sub in s (the empty text is in every text)
Contains(sub, s) == \E i \in 1..(Len(s) + 1) : StartsAt(s, i, sub)

\* s.replace(pat, rep), pat not empty
RECURSIVE ReplaceFrom(_, _, _, _)
ReplaceFrom(s, from, pat, rep) ==
  IF from > Len(s) THEN <<>>
  ELSE IF StartsAt(s, from, pat) THEN rep \o ReplaceFrom(s, from + Len(pat), pat, rep)
  ELSE <<s[from]>> \o ReplaceFrom(s, from + 1, pat, rep)

Replace(s, pat, rep) == ReplaceFrom(s, 1, pat, rep)

\* s.split(): the maximal runs of non-whitespace characters
RECURSIVE WordsFrom(_, _)
WordsFrom(s, from) ==
  IF \A i \in from..Len(s) : s[i] \in Whitespace THEN <<>>
  ELSE LET b == CHOOSE k \in from..Len(s) :
                  s[k] \notin Whitespace /\ \A j \in from..(k-1) : s[j] \in Whitespace
           e == CHOOSE k \in b..Len(s) :
                  /\ \A j \in b..k : s[j] \notin Whitespace
                  /\ (k = Len(s) \/ s[k+1] \in Whitespace)
       IN <<SubSeq(s, b, e)>> \o WordsFrom(s, e + 1)

Words(s) == WordsFrom(s, 1)

\* ' '.join(parts)
RECURSIVE JoinSpace(_)
JoinSpace(parts) ==
  IF Len(parts) = 0 THEN <<>>
  ELSE IF Len(parts) = 1 THEN parts[1]
  ELSE parts[1] \o <<" ">> \o JoinSpace(Tail(parts))

\* re.search(r'https?://[^\s]+', s) matches at position i
UrlAt(s, i) ==
  \/ /\ StartsAt(s, i, <<"h","t","t","p",":","/","/">>)
     /\ i + 7 <= Len(s) /\ s[i+7] \notin Whitespace
  \/ /\ StartsAt(s, i, <<"h","t","t","p","s",":","/","/">>)
     /\ i + 8 <= Len(s) /\ s[i+8] \notin Whitespace

\* re.search(r'https?://[^\s]+', s): the leftmost match, extended greedily
\* to the last character before the next whitespace; NoText when no match.
UrlSearch(s) ==
  IF \E i \in 1..Len(s) : UrlAt(s, i)
  THEN LET i == CHOOSE k \in 1..Len(s) :
                  UrlAt(s, k) /\ \A j \in 1..(k-1) : ~UrlAt(s, j)
           e == CHOOSE k \in i..Len(s) :
                  /\ \A j \in i..k : s[j] \notin Whitespace
                  /\ (k = Len(s) \/ s[k+1] \in Whitespace)
       IN SubSeq(s, i, e)
  ELSE NoText

(***************************************************************************)
(* Sheet cells (the dictionaries of the Sheets API)                        *)
(*   keys      the keys present in the cell dictionary                     *)
(*   fv        formattedValue                                              *)
(*   hyperlink hyperlink                                                   *)
(*   runs      textFormatRuns; a run is [haslink, uri]: whether            *)
(*             run['format'] carries 'link', and run['format']['link']     *)
(*             ['uri']                                                     *)
(***************************************************************************)
EmptyCell == [keys |-> {}, fv |-> NoText, hyperlink |-> NoText, runs |-> <<>>]

TextCell(t) == [keys |-> {"formattedValue"}, fv |-> t, hyperlink |-> NoText, runs |-> <<>>]

HasKey(cell, k) == k \in cell.keys

\* values[i].get('formattedValue', '') for the 0-based column i, '' when the
\* row is shorter
CellText(values, i) ==
  IF Len(values) > i /\ HasKey(values[i+1], "formattedValue") THEN values[i+1].fv ELSE NoText

\* The three methods of lines 80-99 (repeated for columns N, P and Q).
RunLinks(cell) == {i \in 1..Len(cell.runs) : cell.runs[i].haslink}

\* ExtractUrl trying the cell-level hyperlink before the runs
ExtractUrl_CellFirst(cell) ==
  LET m2 == IF HasKey(cell, "hyperlink") THEN cell.hyperlink ELSE NoText
      m1 == IF m2 = NoText /\ HasKey(cell, "textFormatRuns") /\ RunLinks(cell) # {}
            THEN cell.runs[CHOOSE i \in RunLinks(cell) : \A j \in RunLinks(cell) : i <= j].uri
            ELSE m2
      m3 == IF m1 = NoText /\ HasKey(cell, "formattedValue") THEN UrlSearch(cell.fv) ELSE m1
  IN m3

ExtractUrl(cell) ==
  LET m1 == IF HasKey(cell, "textFormatRuns") /\ RunLinks(cell) # {}
            THEN cell.runs[CHOOSE i \in RunLinks(cell) : \A j \in RunLinks(cell) : i <= j].uri
            ELSE NoText
      m2 == IF m1 = NoText /\ HasKey(cell, "hyperlink") THEN cell.hyperlink ELSE m1
      m3 == IF m2 = NoText /\ HasKey(cell, "formattedValue") THEN UrlSearch(cell.fv) ELSE m2
  IN m3

\* The check mark U+2713 of a ticked checkbox, written with a character the
\* module's character set can spell; upper() leaves it unchanged.
CheckMark == "%"

\* The list ['TRUE', CHECK MARK, 'YES', '1'] of lines 61 and 68
TruthyCells == { <<"T","R","U","E">>, <<CheckMark>>, <<"Y","E","S">>, <<"1">> }

DigitChars == <<"0","1","2","3","4","5","6","7","8","9">>

\* str(n) of a non-negative integer, as the f-string f"D{actual_row_num}" formats it
RECURSIVE IntToText(_)
IntToText(n) ==
  IF n < 10 THEN <<DigitChars[n+1]>>
  ELSE IntToText(n \div 10) \o <<DigitChars[(n % 10) + 1]>>

DigitValue(c) == (CHOOSE i \in 1..10 : DigitChars[i] = c) - 1

\* int(s) of a text of decimal digits
RECURSIVE TextToInt(_)
TextToInt(s) ==
  IF Len(s) = 0 THEN 0
  ELSE 10 * TextToInt(SubSeq(s, 1, Len(s)-1)) + DigitValue(s[Len(s)])

(***************************************************************************)
(* get_eligible_rows: one iteration of the loop over rows[7:]              *)
(***************************************************************************)
\* rows[7:] skips this many rows; row_idx + 8 is the sheet's row number
HeaderRows == 7

ActualRowNum(row_idx) == row_idx + 8

\* IsSectionHeader without the test of columns B, D and E
IsSectionHeader_AnyText(values) ==
  /\ Len(values) > 0
  /\ HasKey(values[1], "formattedValue")
  /\ Strip(values[1].fv) # NoText

\* lines 45-51: text in column A and no formattedValue in columns B, D, E
IsSectionHeader(values) ==
  /\ Len(values) > 0
  /\ HasKey(values[1], "formattedValue")
  /\ Strip(values[1].fv) # NoText
  /\ ~\E i \in {1, 3, 4} : i < Len(values) /\ HasKey(values[i+1], "formattedValue")

\* IsTruthy without the upper-casing
IsTruthy_NoUpper(values, i) == CellText(values, i) \in TruthyCells

\* lines 60-61 and 67-68
IsTruthy(values, i) == Upper(CellText(values, i)) \in TruthyCells

\* line 74: values[4] if len(values) > 4 else {}
CellAt(values, i) == IF Len(values) > i THEN values[i+1] ELSE EmptyCell

\* lines 138-144
AuthorNames(values) ==
  IF Len(values) > 7 /\ HasKey(values[8], "formattedValue") /\ Strip(values[8].fv) # NoText
  THEN SplitCommaStrip(Strip(values[8].fv))
  ELSE <<>>

\* Categories falling back to the default label instead of the current one
Categories_Default(values, current_section) ==
  LET cats == IF Len(values) > 14 /\ HasKey(values[15], "formattedValue")
                 /\ Strip(values[15].fv) # NoText
              THEN SplitCommaStrip(Strip(values[15].fv))
              ELSE <<>>
  IN IF cats = <<>> THEN << <<"U","n","c","a","t","e","g","o","r","i","z","e","d">> >> ELSE cats

\* lines 147-159
Categories(values, current_section) ==
  LET cats == IF Len(values) > 14 /\ HasKey(values[15], "formattedValue")
                 /\ Strip(values[15].fv) # NoText
              THEN SplitCommaStrip(Strip(values[15].fv))
              ELSE <<>>
  IN IF cats = <<>> THEN <<current_section>> ELSE cats

\* lines 162-168
PhotographerName(values) ==
  IF Len(values) > 15 /\ HasKey(values[16], "formattedValue")
  THEN Strip(values[16].fv) ELSE NoText

\* lines 224-235: the record appended for an eligible row
EligibleRecord(values, row_idx, current_section) ==
  [ row               |-> ActualRowNum(row_idx),
    doc_url           |-> ExtractUrl(CellAt(values, 4)),
    image_url         |-> IF Len(values) > 13 THEN ExtractUrl(values[14]) ELSE NoText,
    headlines_url     |-> IF Len(values) > 15 THEN ExtractUrl(values[16]) ELSE NoText,
    cutlines_url      |-> IF Len(values) > 16 THEN ExtractUrl(values[17]) ELSE NoText,
    author_names      |-> AuthorNames(values),
    categories        |-> Categories(values, current_section),
    photographer_name |-> PhotographerName(values),
    online_cell       |-> <<"D">> \o IntToText(ActualRowNum(row_idx)),
    section           |-> current_section ]

\* What one iteration does with the row: "empty", "header", "not_ready",
\* "online", "no_url" (the continue statements) or "eligible" (the append).
RowOutcome(values) ==
  IF values = <<>> THEN "empty"
  ELSE IF IsSectionHeader(values) THEN "header"
  ELSE IF ~IsTruthy(values, 1) THEN "not_ready"
  ELSE IF IsTruthy(values, 3) THEN "online"
  ELSE IF ExtractUrl(CellAt(values, 4)) = NoText THEN "no_url"
  ELSE "eligible"

\* One iteration: acc = [current_section, eligible_rows], row_idx 0-based.
ScanStep(acc, values, row_idx) ==
  LET o == RowOutcome(values) IN
  IF o = "header"
  THEN [acc EXCEPT !.current_section = Strip(values[1].fv)]
  ELSE IF o = "eligible"
  THEN [acc EXCEPT !.eligible_rows =
          Append(@, EligibleRecord(values, row_idx, acc.current_section))]
  ELSE acc

(***************************************************************************)
(* Sheets the scan is run on                                               *)
(***************************************************************************)
MaxRows == 3

T_TRUE   == <<"T","R","U","E">>
T_true   == <<"t","r","u","e">>
T_FALSE  == <<"F","A","L","S","E">>
T_Yes    == <<"Y","e","s">>
T_sTRUE  == <<" ","T","R","U","E">>
T_Sports == <<"S","p","o","r","t","s">>
T_Arts   == <<" ","A","r","t","s"," ">>
T_News   == <<"N","e","w","s">>
T_Blank  == <<" "," ">>
T_Title  == <<"t","i","t","l","e">>
T_Uncategorized == <<"U","n","c","a","t","e","g","o","r","i","z","e","d">>

DocPath == <<"/","d","o","c","u","m","e","n","t","/","d","/">>

U_run   == <<"h","t","t","p","s",":","/","/","g">> \o DocPath \o <<"r","1">>
U_run2  == <<"h","t","t","p","s",":","/","/","g">> \o DocPath \o <<"r","2">>
U_cell  == <<"h","t","t","p",":","/","/","g">> \o DocPath \o <<"c","_","2">>
U_text  == <<"h","t","t","p",":","/","/","g">> \o DocPath \o <<"t","-","3">>
U_img   == <<"h","t","t","p","s",":","/","/","g","/","f","i","l","e","/","d","/","i","9">>
\* a URL that names no document
U_other == <<"h","t","t","p","s",":","/","/","g","/","x">>

\* display texts of a story or image cell
T_SeeUrl   == <<"s","e","e","\t">> \o U_text \o <<" ","n","o","w">>
T_TwoUrls  == <<"x">> \o U_other \o <<"\n">> \o U_text
T_NoUrl    == <<"h","t","t","p","s",":","/","/"," ","t","b","d">>
T_NewsArts == T_News \o <<","," ">> \o <<"A","r","t","s">>
T_Authors  == <<"J","a","n","e"," ","D","o","e",","," ","J","o"," ","R","o","e">>
T_Author   == <<"J","a","n","e"," ","D","o","e">>

Run(haslink, uri) == [haslink |-> haslink, uri |-> uri]

\* a cell with a run-level link, a cell-level link and a URL in its text
C_RunAndCell ==
  [keys |-> {"formattedValue", "hyperlink", "textFormatRuns"},
   fv |-> T_SeeUrl, hyperlink |-> U_cell,
   runs |-> <<Run(FALSE, NoText), Run(TRUE, U_run), Run(TRUE, U_run2)>>]

\* runs without any link, a cell-level link
C_CellLink ==
  [keys |-> {"formattedValue", "hyperlink", "textFormatRuns"},
   fv |-> T_SeeUrl, hyperlink |-> U_cell, runs |-> <<Run(FALSE, NoText)>>]

C_RunOnly ==
  [keys |-> {"formattedValue", "textFormatRuns"},
   fv |-> T_Title, hyperlink |-> NoText, runs |-> <<Run(TRUE, U_run2)>>]

C_ImgLink ==
  [keys |-> {"formattedValue", "hyperlink"},
   fv |-> T_Title, hyperlink |-> U_img, runs |-> <<>>]

\* A row of the grid: the cells of columns A, B, D, E, H, N, O (0-based
\* 0, 1, 3, 4, 7, 13, 14), cut to len cells; the other columns are empty.
MkRow(a, b, d, e, h, n, o, len) ==
  [i \in 1..len |->
     CASE i = 1  -> a
       [] i = 2  -> b
       [] i = 4  -> d
       [] i = 5  -> e
       [] i = 8  -> h
       [] i = 14 -> n
       [] i = 15 -> o
       [] OTHER  -> EmptyCell]

ScanRowKinds ==
  { <<>>,
    \* section headers
    MkRow(TextCell(T_Sports), EmptyCell, EmptyCell, EmptyCell, EmptyCell, EmptyCell, EmptyCell, 1),
    MkRow(TextCell(T_Arts), EmptyCell, EmptyCell, EmptyCell, EmptyCell, EmptyCell, EmptyCell, 6),
    \* blank text in column A, text in column A beside a story cell: no headers
    MkRow(TextCell(T_Blank), EmptyCell, EmptyCell, EmptyCell, EmptyCell, EmptyCell, EmptyCell, 1),
    MkRow(TextCell(T_Title), EmptyCell, EmptyCell, C_CellLink, EmptyCell, EmptyCell, EmptyCell, 5),
    \* ready, not online
    MkRow(EmptyCell, TextCell(T_TRUE), TextCell(T_FALSE), C_RunAndCell,
          EmptyCell, EmptyCell, EmptyCell, 5),
    MkRow(TextCell(T_Title), TextCell(T_true), EmptyCell, C_CellLink,
          TextCell(T_Authors), TextCell(T_TwoUrls), TextCell(T_NewsArts), 15),
    MkRow(TextCell(T_Title), TextCell(<<CheckMark>>), TextCell(<<"n","o">>), TextCell(T_SeeUrl),
          EmptyCell, C_ImgLink, TextCell(T_Blank), 15),
    MkRow(EmptyCell, TextCell(T_Yes), TextCell(T_FALSE), C_RunOnly,
          TextCell(T_Author), TextCell(T_NoUrl), EmptyCell, 14),
    \* ready, not online, no story URL
    MkRow(TextCell(T_Title), TextCell(<<"1">>), TextCell(T_FALSE), TextCell(T_NoUrl),
          EmptyCell, EmptyCell, EmptyCell, 5),
    MkRow(TextCell(T_Title), TextCell(T_TRUE), EmptyCell, EmptyCell, EmptyCell, EmptyCell, EmptyCell, 2),
    \* not ready
    MkRow(TextCell(T_Title), TextCell(T_FALSE), TextCell(T_FALSE), C_RunAndCell,
          EmptyCell, EmptyCell, TextCell(T_News), 15),
    MkRow(EmptyCell, TextCell(T_sTRUE), TextCell(T_FALSE), C_CellLink,
          EmptyCell, EmptyCell, EmptyCell, 5),
    \* already online
    MkRow(TextCell(T_Title), TextCell(T_TRUE), TextCell(T_true), C_RunAndCell,
          EmptyCell, EmptyCell, EmptyCell, 5),
    MkRow(EmptyCell, TextCell(T_Yes), TextCell(T_Yes), C_CellLink,
          EmptyCell, EmptyCell, EmptyCell, 5) }

SheetsOf(kinds, n) == UNION { [1..k -> kinds] : k \in 0..n }

(***************************************************************************)
(* WordPress: authors                                                      *)
(***************************************************************************)
\* GET /wp/v2/users?search=term as WordPress answers it: the accounts whose
\* name contains the term, case-insensitively, in the order of the accounts.
RECURSIVE SearchUsers(_, _)
SearchUsers(users, term) ==
  IF users = <<>> THEN <<>>
  ELSE (IF Contains(Lower(term), Lower(users[1].name)) THEN <<users[1]>> ELSE <<>>)
       \o SearchUsers(Tail(users), term)

NextUserId(users) ==
  1 + (CHOOSE m \in {0} \cup {users[i].id : i \in 1..Len(users)} :
         \A i \in 1..Len(users) : users[i].id <= m)

\* create_wordpress_user; create is the outcome of the POST: "created"
\* (201), "rejected" (another status) or "exception".  [id, users]: the
\* returned ID (0 for None) and the accounts afterwards.
CreateWordpressUser(full_name, users, create) ==
  LET name_parts == Words(Strip(full_name)) IN
  IF Len(name_parts) < 2 THEN [id |-> 0, users |-> users, posted |-> FALSE]
  ELSE IF create = "created"
  THEN [id |-> NextUserId(users),
        users |-> Append(users, [id |-> NextUserId(users),
                                 name |-> name_parts[1] \o <<" ">> \o JoinSpace(Tail(name_parts))]),
        posted |-> TRUE]
  ELSE [id |-> 0, users |-> users, posted |-> TRUE]

\* get_or_create_author_id taking the first user the search returned
GetOrCreateAuthorId_FirstResult(author_name, users, search, create) ==
  LET primary_author == Strip(SplitFrom(Strip(author_name), 1, ",")[1])
      found == SearchUsers(users, primary_author)
  IN IF search = "exception" THEN [id |-> 0, users |-> users, posted |-> FALSE]
     ELSE IF search = "ok" /\ found # <<>>
     THEN [id |-> found[1].id, users |-> users, posted |-> FALSE]
     ELSE CreateWordpressUser(primary_author, users, create)

\* get_or_create_author_id; search is the outcome of the GET: "ok" (200),
\* "error" (another status) or "exception".
GetOrCreateAuthorId(author_name, users, search, create) ==
  LET primary_author == Strip(SplitFrom(Strip(author_name), 1, ",")[1])
      found == SearchUsers(users, primary_author)
      exact == {i \in 1..Len(found) : Lower(found[i].name) = Lower(primary_author)}
  IN IF search = "exception" THEN [id |-> 0, users |-> users, posted |-> FALSE]
     ELSE IF search = "ok" /\ found # <<>>
     THEN [id |-> IF exact # {}
                  THEN found[CHOOSE i \in exact : \A j \in exact : i <= j].id
                  ELSE found[1].id,
           users |-> users, posted |-> FALSE]
     ELSE CreateWordpressUser(primary_author, users, create)

(***************************************************************************)
(* WordPress: categories                                                   *)
(***************************************************************************)
\* index of the first category satisfying P, 0 when none does
FirstCategory(all, P(_)) ==
  IF \E i \in 1..Len(all) : P(all[i])
  THEN CHOOSE i \in 1..Len(all) : P(all[i]) /\ \A j \in 1..(i-1) : ~P(all[j])
  ELSE 0

CommonWords ==
  { <<"a","n","d">>, <<"o","r">>, <<"t","h","e">>, <<"i","n">>, <<"o","n">>, <<"a","t">>,
    <<"t","o">>, <<"f","o","r">>, <<"w","i","t","h">>, <<"b","y">>, <<"o","f">> }

\* [word for word in words if len(word) > 2 and word.lower() not in common_words]
RECURSIVE SignificantWords(_)
SignificantWords(words) ==
  IF words = <<>> THEN <<>>
  ELSE (IF Len(words[1]) > 2 /\ Lower(words[1]) \notin CommonWords THEN <<words[1]>> ELSE <<>>)
       \o SignificantWords(Tail(words))

\* the word-by-word loop of lines 210-219: index of the category found, or 0
RECURSIVE WordMatch(_, _)
WordMatch(words, all) ==
  IF words = <<>> THEN 0
  ELSE LET i == FirstCategory(all, LAMBDA c : Contains(Lower(words[1]), Lower(c.name)))
       IN IF i # 0 THEN i ELSE WordMatch(Tail(words), all)

\* the cascade without its second stage
MatchCategory_NoStandardized(name, all) ==
  LET original_name == Strip(name)
      with_and == Replace(original_name, <<"&">>, <<"a","n","d">>)
      with_amp == Replace(original_name, <<" ","a","n","d"," ">>, <<" ","&"," ">>)
      s1 == FirstCategory(all, LAMBDA c : Lower(c.name) = Lower(original_name))
      s3 == FirstCategory(all, LAMBDA c : \/ Contains(Lower(original_name), Lower(c.name))
                                          \/ Contains(Lower(with_and), Lower(c.name))
                                          \/ Contains(Lower(with_amp), Lower(c.name)))
      s4 == WordMatch(SignificantWords(Words(original_name)), all)
  IN IF s1 # 0 THEN [stage |-> 1, idx |-> s1]
     ELSE IF s3 # 0 THEN [stage |-> 3, idx |-> s3]
     ELSE IF s4 # 0 THEN [stage |-> 4, idx |-> s4]
     ELSE [stage |-> 0, idx |-> 0]

\* lines 159-222 for one requested name: [stage, idx], the stage that matched
\* (0 when none) and the index of the category taken
MatchCategory(name, all) ==
  LET original_name == Strip(name)
      with_and == Replace(original_name, <<"&">>, <<"a","n","d">>)
      with_amp == Replace(original_name, <<" ","a","n","d"," ">>, <<" ","&"," ">>)
      s1 == FirstCategory(all, LAMBDA c : Lower(c.name) = Lower(original_name))
      s2 == FirstCategory(all, LAMBDA c : \/ Lower(c.name) = Lower(with_and)
                                          \/ Lower(c.name) = Lower(with_amp))
      s3 == FirstCategory(all, LAMBDA c : \/ Contains(Lower(original_name), Lower(c.name))
                                          \/ Contains(Lower(with_and), Lower(c.name))
                                          \/ Contains(Lower(with_amp), Lower(c.name)))
      s4 == WordMatch(SignificantWords(Words(original_name)), all)
  IN IF s1 # 0 THEN [stage |-> 1, idx |-> s1]
     ELSE IF s2 # 0 THEN [stage |-> 2, idx |-> s2]
     ELSE IF s3 # 0 THEN [stage |-> 3, idx |-> s3]
     ELSE IF s4 # 0 THEN [stage |-> 4, idx |-> s4]
     ELSE [stage |-> 0, idx |-> 0]

\* duplicates removed, last occurrences kept
RECURSIVE UniqueIds_KeepLast(_)
UniqueIds_KeepLast(ids) ==
  IF ids = <<>> THEN <<>>
  ELSE LET back == UniqueIds_KeepLast(Tail(ids))
       IN IF \E i \in 1..Len(back) : back[i] = Head(ids)
          THEN back ELSE <<Head(ids)>> \o back

\* lines 225-228: duplicates removed, first occurrences kept
RECURSIVE UniqueIds(_)
UniqueIds(ids) ==
  IF ids = <<>> THEN <<>>
  ELSE LET front == UniqueIds(SubSeq(ids, 1, Len(ids) - 1))
       IN IF \E i \in 1..Len(front) : front[i] = ids[Len(ids)]
          THEN front ELSE Append(front, ids[Len(ids)])

RECURSIVE MatchedIds(_, _)
MatchedIds(categories_list, all) ==
  IF categories_list = <<>> THEN <<>>
  ELSE LET m == MatchCategory(categories_list[1], all)
       IN (IF m.idx # 0 THEN <<all[m.idx].id>> ELSE <<>>)
          \o MatchedIds(Tail(categories_list), all)

\* get_category_ids; fetch is the outcome of the GET of the category list:
\* "ok" (200), "error" (another status) or "exception"
GetCategoryIds(categories_list, all, fetch) ==
  IF fetch # "ok" THEN <<>> ELSE UniqueIds(MatchedIds(categories_list, all))

\* the categories of the WordPress site
WpCategories ==
  << [id |-> 3, name |-> <<"N","e","w","s">>],
     [id |-> 4, name |-> <<"A","r","t","s"," ","a","n","d"," ","C","u","l","t","u","r","e">>],
     [id |-> 7, name |-> <<"S","p","o","r","t","s">>] >>

\* the accounts of the WordPress site before the run
WpUsers0 == << [id |-> 2, name |-> <<"J","a","n","e"," ","D","o","e">>] >>

(***************************************************************************)
(* State                                                                   *)
(***************************************************************************)
VARIABLES
  rows,             \* the sheet: rowData[7:], one sequence of cells per row
  row_idx,          \* get_eligible_rows: number of rows scanned so far
  current_section,  \* get_eligible_rows: the running section label
  eligible_rows,    \* get_eligible_rows: the records found so far
  pc,               \* position of main
  cur,              \* main: 1-based index of the row of the for loop
  post_info,        \* main: status record of the row in progress
  redaction,        \* main: what parse_redaction_doc returned
  featured_media_id,
  author_id,
  category_ids,
  successful_posts,
  failed_posts,
  skipped_posts,
  summary,          \* what the final summary printed
  wp_users,         \* WordPress: the user accounts
  wp_posts,         \* WordPress: the posts created
  wp_media,         \* WordPress: number of media items uploaded
  sheet_writes,     \* the updateCells requests the sheet accepted
  faults,           \* number of failures of the environment so far
  last_call         \* the last call of a library function made on its own, with its result

scanVars == <<rows, row_idx, current_section, eligible_rows>>

mainVars == <<pc, cur, post_info, redaction, featured_media_id, author_id, category_ids,
              successful_posts, failed_posts, skipped_posts, summary,
              wp_users, wp_posts, wp_media, sheet_writes, faults>>

vars == <<rows, row_idx, current_section, eligible_rows,
          pc, cur, post_info, redaction, featured_media_id, author_id, category_ids,
          successful_posts, failed_posts, skipped_posts, summary,
          wp_users, wp_posts, wp_media, sheet_writes, faults, last_call>>

(***************************************************************************)
(* get_eligible_rows as a loop: one action per row                         *)
(***************************************************************************)
NoPostInfo ==
  [ row |-> 0, headline |-> "Unknown", authors |-> <<>>, categories |-> <<>>,
    section |-> NoText, status |-> "Skipped", post_id |-> 0,
    image_status |-> [has_image |-> FALSE, status |-> "No image found", media_id |-> 0],
    category_status |-> [requested |-> 0, applied |-> 0, status |-> "Not processed"],
    author_status |-> [requested |-> 0, applied |-> 0, primary_author_id |-> 0,
                       status |-> "Not processed"],
    sheet_update_status |-> "Not updated", error_details |-> "None" ]

\* no library function was called on its own yet
NoCall == [n |-> 0, fn |-> "none"]

NoSummary == [printed |-> FALSE, successful |-> <<>>, skipped |-> <<>>, failed |-> <<>>]

MainIdleWith(at, users) ==
  /\ pc = at
  /\ cur = 1
  /\ post_info = NoPostInfo
  /\ redaction = "None"
  /\ featured_media_id = 0
  /\ author_id = 0
  /\ category_ids = <<>>
  /\ successful_posts = <<>>
  /\ failed_posts = <<>>
  /\ skipped_posts = <<>>
  /\ summary = NoSummary
  /\ wp_users = users
  /\ wp_posts = <<>>
  /\ wp_media = 0
  /\ sheet_writes = <<>>
  /\ faults = 0
  /\ last_call = NoCall

MainIdle(at) == MainIdleWith(at, WpUsers0)

ScanInit ==
  /\ rows \in SheetsOf(ScanRowKinds, MaxRows)
  /\ row_idx = 0
  /\ current_section = T_Uncategorized
  /\ eligible_rows = <<>>
  /\ MainIdle("scan")

\* one iteration of `for row_idx, row in enumerate(rows[7:])`
ScanRow ==
  /\ pc = "scan"
  /\ row_idx < Len(rows)
  /\ \E acc \in {ScanStep([current_section |-> current_section, eligible_rows |-> eligible_rows],
                          rows[row_idx + 1], row_idx)} :
        /\ current_section' = acc.current_section
        /\ eligible_rows' = acc.eligible_rows
  /\ row_idx' = row_idx + 1
  /\ UNCHANGED <<rows, mainVars>>
  /\ UNCHANGED last_call

\* `return eligible_rows`
ScanReturn ==
  /\ pc = "scan"
  /\ row_idx = Len(rows)
  /\ pc' = "returned"
  /\ UNCHANGED <<scanVars, cur, post_info, redaction, featured_media_id, author_id,
                 category_ids, successful_posts, failed_posts, skipped_posts, summary,
                 wp_users, wp_posts, wp_media, sheet_writes, faults>>
  /\ UNCHANGED last_call

ScanNext == ScanRow \/ ScanReturn

SpecScan == ScanInit /\ [][ScanNext]_vars

(***************************************************************************)
(* main                                                                    *)
(***************************************************************************)
\* the whole of get_eligible_rows: the loop folded over the first n rows
RECURSIVE ScanRows(_, _)
ScanRows(grid, n) ==
  IF n = 0 THEN [current_section |-> T_Uncategorized, eligible_rows |-> <<>>]
  ELSE ScanStep(ScanRows(grid, n - 1), grid[n], n - 1)

IdChars ==
  {LowerLetters[i] : i \in 1..26} \cup {UpperLetters[i] : i \in 1..26} \cup Digits \cup {"_", "-"}

\* re.search(r'/document/d/([a-zA-Z0-9_-]+)', url) finds a match
DocMatch(url) ==
  \E i \in 1..Len(url) :
    /\ StartsAt(url, i, DocPath)
    /\ i + Len(DocPath) <= Len(url)
    /\ url[i + Len(DocPath)] \in IdChars

\* lines 1362-1392
NewPostInfo(row) ==
  [ row |-> row.row, headline |-> "Unknown", authors |-> row.author_names,
    categories |-> row.categories, section |-> row.section,
    status |-> "Skipped", post_id |-> 0,
    image_status |-> [has_image |-> FALSE, status |-> "No image found", media_id |-> 0],
    category_status |-> [requested |-> Len(row.categories), applied |-> 0,
                         status |-> "Not processed"],
    author_status |-> [requested |-> Len(row.author_names), applied |-> 0,
                       primary_author_id |-> 0, status |-> "Not processed"],
    sheet_update_status |-> "Not updated", error_details |-> "None" ]

\* The locals of one iteration are dead once the iteration ends (each is
\* assigned again before it is read): they are reset with the row.
DropLocals ==
  /\ post_info' = NoPostInfo
  /\ redaction' = "None"
  /\ featured_media_id' = 0
  /\ author_id' = 0
  /\ category_ids' = <<>>

\* `break` out of the decision loop: on to the next row
EndRow ==
  /\ cur' = cur + 1
  /\ pc' = "loop"
  /\ DropLocals

\* lines 1614-1620: the except clause of the row, up to its key read
RowFailed(info, error_message) ==
  /\ failed_posts' = Append(failed_posts,
        [info EXCEPT !.error_details = error_message, !.status = "Failed"])
  /\ pc' = "except"
  /\ cur' = cur
  /\ DropLocals

\* The environment may fail (a request is rejected, an input ends, a document
\* is empty): at most MaxFaults such failures are explored in one run.
MaxFaults == 1

Fault(n) ==
  /\ faults + n <= MaxFaults
  /\ faults' = faults + n

\* a failed read of the sheet after which main goes on with no eligible row
SheetReadFails_GoesOn ==
  /\ pc = "start"
  /\ pc' = "loop"
  /\ Fault(1)
  /\ UNCHANGED <<scanVars, cur, post_info, redaction, featured_media_id, author_id,
                 category_ids, successful_posts, failed_posts, skipped_posts, summary,
                 wp_users, wp_posts, wp_media, sheet_writes>>
  /\ UNCHANGED last_call

\* lines 1322-1330: the sheet cannot be read
SheetReadFails ==
  /\ pc = "start"
  /\ pc' = "done"
  /\ Fault(1)
  /\ UNCHANGED <<scanVars, cur, post_info, redaction, featured_media_id, author_id,
                 category_ids, successful_posts, failed_posts, skipped_posts, summary,
                 wp_users, wp_posts, wp_media, sheet_writes>>
  /\ UNCHANGED last_call

\* lines 1326-1327
GetEligibleRows ==
  /\ pc = "start"
  /\ \E acc \in {ScanRows(rows, Len(rows))} :
        /\ eligible_rows' = acc.eligible_rows
        /\ current_section' = acc.current_section
  /\ row_idx' = Len(rows)
  /\ pc' = "loop"
  /\ UNCHANGED <<rows, cur, post_info, redaction, featured_media_id, author_id,
                 category_ids, successful_posts, failed_posts, skipped_posts, summary,
                 wp_users, wp_posts, wp_media, sheet_writes, faults>>
  /\ UNCHANGED last_call

\* lines 1358-1399: the next row of the loop, its status record, its document ID
LoadRow ==
  /\ pc = "loop"
  /\ cur <= Len(eligible_rows)
  /\ LET row == eligible_rows[cur] IN
     IF DocMatch(row.doc_url)
     THEN /\ post_info' = NewPostInfo(row)
          /\ pc' = "redaction"
          /\ UNCHANGED <<cur, redaction, featured_media_id, author_id, category_ids,
                         failed_posts>>
     ELSE RowFailed(NewPostInfo(row), "Invalid Google Doc URL for redaction")
  /\ UNCHANGED <<scanVars, successful_posts, skipped_posts, summary,
                 wp_users, wp_posts, wp_media, sheet_writes, faults>>
  /\ UNCHANGED last_call

\* lines 1401-1404; parse_redaction_doc returns the text chosen ("text"),
\* '' for an empty document ("empty"), or the message of an exception it
\* caught ("error_text", google_integration.py lines 338-340)
ParseRedaction ==
  /\ pc = "redaction"
  /\ \E r \in {"text", "empty", "error_text"} :
       /\ Fault(IF r = "text" THEN 0 ELSE 1)
       /\ IF r = "empty"
          THEN RowFailed(post_info, "Failed to parse redaction document")
          ELSE /\ redaction' = r
               /\ pc' = "headline"
               /\ UNCHANGED <<cur, post_info, featured_media_id, author_id, category_ids,
                              failed_posts>>
  /\ UNCHANGED <<scanVars, successful_posts, skipped_posts, summary,
                 wp_users, wp_posts, wp_media, sheet_writes>>
  /\ UNCHANGED last_call

\* lines 1406-1424: the headline and the cutline are read with input(),
\* which raises when the input ends
SelectHeadline ==
  /\ pc = "headline"
  /\ \E entered \in BOOLEAN :
       /\ Fault(IF entered THEN 0 ELSE 1)
       /\ IF entered
          THEN /\ post_info' = [post_info EXCEPT !.headline = "Team wins"]
               /\ pc' = "image"
               /\ UNCHANGED <<cur, redaction, featured_media_id, author_id, category_ids,
                              failed_posts>>
          ELSE RowFailed(post_info, "EOF when reading a line")
  /\ UNCHANGED <<scanVars, successful_posts, skipped_posts, summary,
                 wp_users, wp_posts, wp_media, sheet_writes>>
  /\ UNCHANGED last_call

\* lines 1426-1462; first is what process_image_from_url returns and fallback
\* what handle_image_fallback returns: "uploaded" (a media ID) or "none"
HandleImage ==
  /\ pc = "image"
  /\ \E first \in {"uploaded", "none"}, fallback \in {"uploaded", "none"} :
       LET has_url == eligible_rows[cur].image_url # NoText
           got == IF has_url /\ first = "uploaded" THEN "spreadsheet"
                  ELSE IF fallback = "uploaded" THEN "fallback"
                  ELSE "none"
       IN /\ (has_url /\ first = "uploaded") => fallback = "none"
          /\ ~has_url => first = "none"
          /\ Fault(IF has_url /\ first = "none" THEN 1 ELSE 0)
          /\ featured_media_id' = IF got = "none" THEN 0 ELSE wp_media + 1
          /\ wp_media' = IF got = "none" THEN wp_media ELSE wp_media + 1
          /\ post_info' =
               IF got = "spreadsheet"
               THEN [post_info EXCEPT !.image_status =
                       [has_image |-> TRUE, status |-> "Uploaded successfully from spreadsheet URL",
                        media_id |-> wp_media + 1]]
               ELSE IF got = "fallback"
               THEN [post_info EXCEPT !.image_status =
                       [has_image |-> TRUE,
                        status |-> IF has_url THEN "Uploaded successfully via fallback method"
                                   ELSE "Uploaded successfully via manual input",
                        media_id |-> wp_media + 1]]
               ELSE IF has_url
               THEN [post_info EXCEPT !.image_status.status = "All image upload attempts failed"]
               ELSE post_info
  /\ pc' = "author"
  /\ UNCHANGED <<scanVars, cur, redaction, author_id, category_ids, successful_posts,
                 failed_posts, skipped_posts, summary, wp_users, wp_posts, sheet_writes>>
  /\ UNCHANGED last_call

\* lines 1445 and 1457: handle_image_fallback reads with input(), which raises
\* when the input ends
ImageInputFails ==
  /\ pc = "image"
  /\ Fault(1)
  /\ RowFailed(post_info, "EOF when reading a line")
  /\ UNCHANGED <<scanVars, successful_posts, skipped_posts, summary,
                 wp_users, wp_posts, wp_media, sheet_writes>>
  /\ UNCHANGED last_call

\* lines 1464-1476
ResolveAuthor ==
  /\ pc = "author"
  /\ LET names == eligible_rows[cur].author_names IN
     IF names # <<>>
     THEN \E search \in {"ok", "error", "exception"}, create \in {"created", "rejected"} :
            \E r \in {GetOrCreateAuthorId(names[1], wp_users, search, create)} :
            /\ r.posted \/ create = "created"
            /\ Fault((IF search = "ok" THEN 0 ELSE 1) + (IF create = "created" THEN 0 ELSE 1))
            /\ author_id' = r.id
            /\ wp_users' = r.users
            /\ post_info' =
                 IF r.id # 0
                 THEN [post_info EXCEPT !.author_status =
                         [requested |-> @.requested, applied |-> 1, primary_author_id |-> r.id,
                          status |-> IF Len(names) > 1
                                     THEN "Primary author set, co-authors need manual addition"
                                     ELSE "Primary author set"]]
                 ELSE [post_info EXCEPT !.author_status.status = "Author creation failed"]
     ELSE UNCHANGED <<author_id, wp_users, post_info, faults>>
  /\ pc' = "categories"
  /\ UNCHANGED <<scanVars, cur, redaction, featured_media_id, category_ids, successful_posts,
                 failed_posts, skipped_posts, summary, wp_posts, wp_media, sheet_writes>>
  /\ UNCHANGED last_call

\* lines 1478-1489
ResolveCategories ==
  /\ pc = "categories"
  /\ LET cats == eligible_rows[cur].categories IN
     IF cats # <<>>
     THEN \E fetch \in {"ok", "error"} :
            \E ids \in {GetCategoryIds(cats, WpCategories, fetch)} :
            /\ Fault(IF fetch = "ok" THEN 0 ELSE 1)
            /\ category_ids' = ids
            /\ post_info' = [post_info EXCEPT !.category_status =
                 [requested |-> @.requested, applied |-> Len(ids),
                  status |-> IF ids = <<>> THEN "No categories found"
                             ELSE IF Len(ids) = Len(cats) THEN "All categories applied"
                             ELSE "Some categories found"]]
     ELSE UNCHANGED <<category_ids, post_info, faults>>
  /\ pc' = "decide"
  /\ UNCHANGED <<scanVars, cur, redaction, featured_media_id, author_id, successful_posts,
                 failed_posts, skipped_posts, summary, wp_users, wp_posts, wp_media,
                 sheet_writes>>
  /\ UNCHANGED last_call

\* a create_wordpress_post_with_details that publishes whatever the status
NewPost_Publish(status) ==
  [ id |-> Len(wp_posts) + 1, row |-> post_info.row, status |-> "publish",
    title |-> post_info.headline, content |-> redaction,
    author |-> author_id, categories |-> category_ids,
    featured_media |-> featured_media_id ]

\* create_wordpress_post_with_details: the post the POST creates when it is
\* answered 201
NewPost(status) ==
  [ id |-> Len(wp_posts) + 1, row |-> post_info.row, status |-> status,
    title |-> post_info.headline, content |-> redaction,
    author |-> author_id, categories |-> category_ids,
    featured_media |-> featured_media_id ]

\* an update_online_status that takes the row number for the row index
UpdateRange_NextRow(cell_reference) ==
  [ startRowIndex    |-> TextToInt(Tail(cell_reference)),
    endRowIndex      |-> TextToInt(Tail(cell_reference)) + 1,
    startColumnIndex |-> 3,
    endColumnIndex   |-> 4 ]

\* update_online_status: the range of the updateCells request built from
\* the cell reference (0-based, end exclusive)
UpdateRange(cell_reference) ==
  [ startRowIndex    |-> TextToInt(Tail(cell_reference)) - 1,
    endRowIndex      |-> TextToInt(Tail(cell_reference)),
    startColumnIndex |-> 3,
    endColumnIndex   |-> 4 ]

\* the cell after userEnteredValue.boolValue = True was written to it
TickedCell(cell) ==
  [cell EXCEPT !.keys = @ \cup {"formattedValue"}, !.fv = <<"T","R","U","E">>]

\* The sheet after it accepted the request: grid row r (0-based) is
\* rows[r - 7 + 1], grid column c (0-based) is values[c + 1].
ApplyUpdate(grid, range) ==
  [k \in 1..Len(grid) |->
     IF k + HeaderRows - 1 \in range.startRowIndex..(range.endRowIndex - 1)
     THEN LET width == IF Len(grid[k]) > range.endColumnIndex
                       THEN Len(grid[k]) ELSE range.endColumnIndex
          IN [c \in 1..width |->
                IF c - 1 \in range.startColumnIndex..(range.endColumnIndex - 1)
                THEN TickedCell(IF c <= Len(grid[k]) THEN grid[k][c] ELSE EmptyCell)
                ELSE IF c <= Len(grid[k]) THEN grid[k][c] ELSE EmptyCell]
     ELSE grid[k]]

\* line 1509: get_single_key raises (termios.error when the standard input
\* is not a terminal); the except clause of the row catches it
DecideKeyFails ==
  /\ pc = "decide"
  /\ Fault(1)
  /\ RowFailed(post_info, "Inappropriate ioctl for device")
  /\ UNCHANGED <<scanVars, successful_posts, skipped_posts, summary,
                 wp_users, wp_posts, wp_media, sheet_writes>>
  /\ UNCHANGED last_call

\* lines 1621-1622: the key read of the except clause returns, `continue`
ErrorContinue ==
  /\ pc = "except"
  /\ cur' = cur + 1
  /\ pc' = "loop"
  /\ UNCHANGED <<scanVars, post_info, redaction, featured_media_id, author_id,
                 category_ids, successful_posts, failed_posts, skipped_posts, summary,
                 wp_users, wp_posts, wp_media, sheet_writes, faults>>
  /\ UNCHANGED last_call

\* lines 1621 and 1728-1729: the key read of the except clause raises; the
\* exception leaves the loop and is caught by the except clause of main,
\* which prints "Fatal error" and returns
ErrorKeyFails ==
  /\ pc = "except"
  /\ Fault(1)
  /\ pc' = "fatal"
  /\ UNCHANGED <<scanVars, cur, post_info, redaction, featured_media_id, author_id,
                 category_ids, successful_posts, failed_posts, skipped_posts, summary,
                 wp_users, wp_posts, wp_media, sheet_writes>>
  /\ UNCHANGED last_call

\* an ESC that creates the post as a draft before it returns
DecideExit_SavesDraft ==
  /\ pc = "decide"
  /\ pc' = "done"
  /\ wp_posts' = Append(wp_posts, NewPost("draft"))
  /\ UNCHANGED <<scanVars, cur, post_info, redaction, featured_media_id, author_id,
                 category_ids, successful_posts, failed_posts, skipped_posts, summary,
                 wp_users, wp_media, sheet_writes, faults>>
  /\ UNCHANGED last_call

\* lines 1512-1514: ESC
DecideExit ==
  /\ pc = "decide"
  /\ pc' = "done"
  /\ UNCHANGED <<scanVars, cur, post_info, redaction, featured_media_id, author_id,
                 category_ids, successful_posts, failed_posts, skipped_posts, summary,
                 wp_users, wp_posts, wp_media, sheet_writes, faults>>
  /\ UNCHANGED last_call

\* lines 1516-1559: ENTER; post is the outcome of the POST of the post
\* ("created" for 201, "rejected" for another status or an exception), sheet
\* the outcome of the batchUpdate ("ok", or "exception")
DecidePublish ==
  /\ pc = "decide"
  /\ \E post \in {"created", "rejected"}, sheet \in {"ok", "exception"} :
       /\ Fault((IF post = "created" THEN 0 ELSE 1) + (IF sheet = "ok" THEN 0 ELSE 1))
       /\ IF post = "created"
          THEN \E range \in {UpdateRange(eligible_rows[cur].online_cell)} :
               /\ wp_posts' = Append(wp_posts, NewPost("publish"))
               /\ sheet_writes' = IF sheet = "ok" THEN Append(sheet_writes, range) ELSE sheet_writes
               /\ rows' = IF sheet = "ok" THEN ApplyUpdate(rows, range) ELSE rows
               /\ successful_posts' = Append(successful_posts,
                    [post_info EXCEPT !.status = "Published",
                                      !.post_id = Len(wp_posts) + 1,
                                      !.sheet_update_status =
                                         IF sheet = "ok" THEN "Updated successfully"
                                         ELSE "Update failed"])
               /\ UNCHANGED failed_posts
          ELSE /\ sheet = "ok"
               /\ failed_posts' = Append(failed_posts,
                    [post_info EXCEPT !.error_details = "HTTP error", !.status = "Failed"])
               /\ UNCHANGED <<wp_posts, sheet_writes, rows, successful_posts>>
  /\ EndRow
  /\ UNCHANGED <<row_idx, current_section, eligible_rows, skipped_posts, summary,
                 wp_users, wp_media>>
  /\ UNCHANGED last_call

\* a BACKSPACE that ticks the online cell of the row of the draft
DecideDraft_Ticks ==
  /\ pc = "decide"
  /\ \E post \in {"created", "rejected"} :
       /\ Fault(IF post = "created" THEN 0 ELSE 1)
       /\ IF post = "created"
          THEN /\ wp_posts' = Append(wp_posts, NewPost("draft"))
               /\ sheet_writes' = Append(sheet_writes, UpdateRange(eligible_rows[cur].online_cell))
               /\ successful_posts' = Append(successful_posts,
                    [post_info EXCEPT !.status = "Draft",
                                      !.post_id = Len(wp_posts) + 1,
                                      !.sheet_update_status = "Not updated (draft)"])
               /\ UNCHANGED failed_posts
          ELSE /\ failed_posts' = Append(failed_posts,
                    [post_info EXCEPT !.error_details = "HTTP error", !.status = "Failed"])
               /\ UNCHANGED <<wp_posts, successful_posts, sheet_writes>>
  /\ EndRow
  /\ UNCHANGED <<scanVars, skipped_posts, summary, wp_users, wp_media>>
  /\ UNCHANGED last_call

\* lines 1561-1603: BACKSPACE
DecideDraft ==
  /\ pc = "decide"
  /\ \E post \in {"created", "rejected"} :
       /\ Fault(IF post = "created" THEN 0 ELSE 1)
       /\ IF post = "created"
          THEN /\ wp_posts' = Append(wp_posts, NewPost("draft"))
               /\ successful_posts' = Append(successful_posts,
                    [post_info EXCEPT !.status = "Draft",
                                      !.post_id = Len(wp_posts) + 1,
                                      !.sheet_update_status = "Not updated (draft)"])
               /\ UNCHANGED failed_posts
          ELSE /\ failed_posts' = Append(failed_posts,
                    [post_info EXCEPT !.error_details = "HTTP error", !.status = "Failed"])
               /\ UNCHANGED <<wp_posts, successful_posts>>
  /\ EndRow
  /\ UNCHANGED <<scanVars, skipped_posts, summary, wp_users, wp_media, sheet_writes>>
  /\ UNCHANGED last_call

\* lines 1605-1609: SPACE
DecideSkip ==
  /\ pc = "decide"
  /\ skipped_posts' = Append(skipped_posts, [post_info EXCEPT !.status = "Skipped"])
  /\ EndRow
  /\ UNCHANGED <<scanVars, successful_posts, failed_posts, summary,
                 wp_users, wp_posts, wp_media, sheet_writes, faults>>
  /\ UNCHANGED last_call

\* what the summary prints of a post (lines 1643-1667, 1675, 1683-1696)
RenderSuccessful(post) ==
  [ row |-> post.row, headline |-> post.headline, status |-> post.status,
    post_id |-> post.post_id, section |-> post.section,
    author |-> post.author_status.status,
    categories |-> post.category_status.status,
    image |-> post.image_status.status,
    sheet |-> post.sheet_update_status ]

RenderSkipped(post) ==
  [ row |-> post.row, headline |-> post.headline, section |-> post.section ]

RenderFailed(post) ==
  [ row |-> post.row, headline |-> post.headline, section |-> post.section,
    error |-> post.error_details,
    image |-> IF post.image_status.has_image THEN post.image_status.status ELSE "",
    author |-> IF post.author_status.primary_author_id # 0
               THEN post.author_status.status ELSE "",
    categories |-> IF post.category_status.applied > 0
                   THEN post.category_status.status ELSE "" ]

\* lines 1624-1726: the loop is over, the summary is printed
PrintSummary ==
  /\ pc = "loop"
  /\ cur > Len(eligible_rows)
  /\ summary' =
       [ printed |-> TRUE,
         successful |-> [i \in 1..Len(successful_posts) |-> RenderSuccessful(successful_posts[i])],
         skipped |-> [i \in 1..Len(skipped_posts) |-> RenderSkipped(skipped_posts[i])],
         failed |-> [i \in 1..Len(failed_posts) |-> RenderFailed(failed_posts[i])] ]
  /\ pc' = "done"
  /\ UNCHANGED <<scanVars, cur, post_info, redaction, featured_media_id, author_id,
                 category_ids, successful_posts, failed_posts, skipped_posts,
                 wp_users, wp_posts, wp_media, sheet_writes, faults>>
  /\ UNCHANGED last_call

(***************************************************************************)
(* Sheets the batch is run on                                              *)
(***************************************************************************)
MaxBatchRows == 2

T_NewAuthors == <<"J","o"," ","R","o","e",","," ","J","a","n","e"," ","D","o","e">>
T_OldAuthor  == <<"j","a","n","e"," ","d","o","e">>

C_NoDoc ==
  [keys |-> {"formattedValue", "hyperlink"},
   fv |-> T_Title, hyperlink |-> U_other, runs |-> <<>>]

MainRowKinds ==
  { \* a section header
    MkRow(TextCell(T_Sports), EmptyCell, EmptyCell, EmptyCell, EmptyCell, EmptyCell, EmptyCell, 1),
    \* image, two authors (the first has no account yet), two categories
    MkRow(TextCell(T_Title), TextCell(T_TRUE), TextCell(T_FALSE), C_RunAndCell,
          TextCell(T_NewAuthors), C_ImgLink, TextCell(T_NewsArts), 15),
    \* no image, an author with an account, the section as category
    MkRow(EmptyCell, TextCell(T_Yes), EmptyCell, C_CellLink,
          TextCell(T_OldAuthor), EmptyCell, EmptyCell, 8),
    \* a story link that names no document
    MkRow(EmptyCell, TextCell(T_TRUE), TextCell(T_FALSE), C_NoDoc,
          TextCell(T_OldAuthor), EmptyCell, EmptyCell, 8) }

MainInit ==
  /\ rows \in SheetsOf(MainRowKinds, MaxBatchRows)
  /\ row_idx = 0
  /\ current_section = T_Uncategorized
  /\ eligible_rows = <<>>
  /\ MainIdle("start")

MainNext ==
  \/ SheetReadFails
  \/ GetEligibleRows
  \/ LoadRow
  \/ ParseRedaction
  \/ SelectHeadline
  \/ HandleImage
  \/ ImageInputFails
  \/ ResolveAuthor
  \/ ResolveCategories
  \/ DecideKeyFails
  \/ ErrorContinue
  \/ ErrorKeyFails
  \/ DecideExit
  \/ DecidePublish
  \/ DecideDraft
  \/ DecideSkip
  \/ PrintSummary

SpecMain == MainInit /\ [][MainNext]_vars

(***************************************************************************)
(* The taxonomy functions called on their own                              *)
(***************************************************************************)
MaxCalls == 2

\* the requested category lists
N_ArtsAmpCulture == <<"A","r","t","s"," ","&"," ","C","u","l","t","u","r","e">>
N_ArtsAndCulture == <<"A","r","t","s"," ","a","n","d"," ","C","u","l","t","u","r","e">>
N_CultureNews    == <<"C","u","l","t","u","r","e"," ","N","e","w","s">>
N_ArtsOnly       == <<"A","r","t","s">>
N_sports         == <<"s","p","o","r","t","s">>
N_sSports        == <<" ","S","p","o","r","t","s"," ">>
N_Opinion        == <<"O","p","i","n","i","o","n">>
N_TheOp          == <<"T","h","e"," ","O","p">>

CategoryRequests ==
  { <<N_ArtsAmpCulture>>, <<N_ArtsAndCulture>>, <<N_CultureNews>>, <<N_ArtsOnly>>,
    <<N_sports, N_sSports>>, <<N_Opinion, T_News>>, <<T_News, T_Sports, T_News>>,
    <<T_Sports, NoText>>, <<N_TheOp>>, <<>> }

\* another site's categories: an ampersand name, and a longer name before
\* the name it contains
WpCategoriesAmp ==
  << [id |-> 8, name |-> <<"S","p","o","r","t","s"," ","N","e","w","s">>],
     [id |-> 5, name |-> <<"A","r","t","s"," ","&"," ","C","u","l","t","u","r","e">>],
     [id |-> 7, name |-> T_Sports] >>

BackendLists == { WpCategories, WpCategoriesAmp, <<>> }

\* the accounts of a site where the search for "Jane Doe" returns a longer
\* name first and two accounts of that name
WpUsersFuzzy ==
  << [id |-> 5, name |-> <<"J","a","n","e"," ","D","o","e","r","r">>],
     [id |-> 9, name |-> <<"j","a","n","e"," ","d","o","e">>],
     [id |-> 2, name |-> T_Author] >>

UserLists == { WpUsers0, WpUsersFuzzy, <<>> }

A_Jane    == <<"J","a","n","e">>
A_Cher    == <<"C","h","e","r">>
A_JoRoe   == <<"J","o"," ","R","o","e">>
A_sAuthor == <<" ">> \o T_Author \o <<" ","\n">>

AuthorRequests == { T_Author, T_OldAuthor, T_Authors, T_NewAuthors, A_sAuthor, A_Jane, A_Cher, A_JoRoe }

\* get_category_ids(categories_list) against a site whose categories are all
CallGetCategoryIds ==
  /\ pc = "taxonomy"
  /\ last_call.n < MaxCalls
  /\ \E categories_list \in CategoryRequests, all \in BackendLists,
        fetch \in {"ok", "error", "exception"} :
       last_call' =
         [ n |-> last_call.n + 1, fn |-> "get_category_ids",
           categories_list |-> categories_list, all |-> all, fetch |-> fetch,
           matches |-> IF fetch = "ok"
                       THEN [i \in 1..Len(categories_list) |->
                               MatchCategory(categories_list[i], all)]
                       ELSE <<>>,
           requests |-> <<"GET categories">>,
           result |-> GetCategoryIds(categories_list, all, fetch) ]
  /\ UNCHANGED <<scanVars, mainVars>>

\* get_or_create_author_id(author_name) against the accounts of the site
CallGetOrCreateAuthorId ==
  /\ pc = "taxonomy"
  /\ last_call.n < MaxCalls
  /\ \E author_name \in AuthorRequests, search \in {"ok", "error", "exception"},
        create \in {"created", "rejected"} :
       \E r \in {GetOrCreateAuthorId(author_name, wp_users, search, create)} :
         /\ last_call' =
              [ n |-> last_call.n + 1, fn |-> "get_or_create_author_id",
                author_name |-> author_name, search |-> search,
                create |-> IF r.posted THEN create ELSE "none",
                users |-> wp_users,
                requests |-> <<"GET users">> \o (IF r.posted THEN <<"POST users">> ELSE <<>>),
                result |-> r.id ]
         /\ wp_users' = r.users
  /\ UNCHANGED <<scanVars, pc, cur, post_info, redaction, featured_media_id, author_id,
                 category_ids, successful_posts, failed_posts, skipped_posts, summary,
                 wp_posts, wp_media, sheet_writes, faults>>

TaxonomyInit ==
  /\ rows = <<>>
  /\ row_idx = 0
  /\ current_section = T_Uncategorized
  /\ eligible_rows = <<>>
  /\ \E users \in UserLists : MainIdleWith("taxonomy", users)

TaxonomyNext ==
  \/ CallGetCategoryIds
  \/ CallGetOrCreateAuthorId

SpecTaxonomy == TaxonomyInit /\ [][TaxonomyNext]_vars

(***************************************************************************)
(* The headline and cutline documents                                      *)
(*   a document is [tabs, body]: the lines of each tab of doc['tabs'] that *)
(*   has lines, and the lines of doc['body']; a line is the stripped,      *)
(*   non-empty text of a paragraph                                         *)
(***************************************************************************)
W_headlines == <<"h","e","a","d","l","i","n","e","s">>
W_insides   == <<"i","n","s","i","d","e","s">>
W_cutlines  == <<"c","u","t","l","i","n","e","s">>
W_newscast  == <<"n","e","w","s","c","a","s","t">>
W_NEWS      == <<"N","E","W","S">>
W_SH        == <<"S","H",":">>
W_PHOTO_CREDIT  == <<"P","H","O","T","O"," ","C","R","E","D","I","T">>
W_PHOTO_CREDITS == <<"P","H","O","T","O"," ","C","R","E","D","I","T","S">>

\* position of the first occurrence of sep in s, 0 when there is none
FirstAt(s, sep) ==
  IF \E i \in 1..Len(s) : StartsAt(s, i, sep)
  THEN CHOOSE i \in 1..Len(s) : StartsAt(s, i, sep) /\ \A j \in 1..(i-1) : ~StartsAt(s, j, sep)
  ELSE 0

\* s.split(sep, 1)
SplitOnce(s, sep) ==
  LET i == FirstAt(s, sep)
  IN IF i = 0 THEN <<s>>
     ELSE <<SubSeq(s, 1, i - 1), SubSeq(s, i + Len(sep), Len(s))>>

\* ':' in line
HasColon(line) == \E i \in 1..Len(line) : line[i] = ":"

\* line.endswith(':')
EndsWithColon(line) == Len(line) > 0 /\ line[Len(line)] = ":"

\* line.rstrip(':')
RECURSIVE RStripColon(_)
RStripColon(line) ==
  IF EndsWithColon(line) THEN RStripColon(SubSeq(line, 1, Len(line) - 1)) ELSE line

\* any(line.lower() == word for line in lines)
HasLine(lines, word) == \E i \in 1..Len(lines) : Lower(lines[i]) = word

\* the dictionary appended to headlines for the n-th line of tab tab (0: the
\* body); with_sh: the "SH:" handling of lines 445-447, which the NEWS:
\* fallback does not have.  tab and line_no record where the entry came from.
HeadlineOf(line, current_category, with_sh, tab, n) ==
  LET parts == SplitOnce(line, <<":">>)
      identifier == Strip(parts[1])
      text == Strip(parts[2])
      sh == SplitOnce(text, W_SH)
  IN [ slug |-> identifier,
       headline |-> IF with_sh /\ Len(sh) = 2
                    THEN Strip(sh[1]) \o <<":", " ">> \o Strip(sh[2])
                    ELSE text,
       category |-> current_category, original |-> line,
       tab |-> tab, line_no |-> n ]

\* lines 407-455: the lines of one tab from the n-th on; st holds the flags,
\* the category and the list
RECURSIVE HeadlinesTabLines(_, _, _, _)
HeadlinesTabLines(lines, n, tab, st) ==
  IF n > Len(lines) THEN st
  ELSE LET line == lines[n] IN
       HeadlinesTabLines(lines, n + 1, tab,
         IF Lower(line) = W_insides
         THEN [st EXCEPT !.in_insides_section = TRUE, !.insides_section_found = TRUE]
         ELSE IF Lower(line) = W_headlines
         THEN [st EXCEPT !.in_headlines_section = TRUE, !.in_insides_section = FALSE,
                         !.past_insides_section = TRUE, !.headlines_found = TRUE]
         ELSE IF ~st.in_insides_section /\ (st.in_headlines_section \/ st.past_insides_section)
         THEN IF EndsWithColon(line)
              THEN [st EXCEPT !.current_category = RStripColon(line)]
              ELSE IF ~HasColon(line) THEN st
              ELSE [st EXCEPT !.headlines =
                      Append(@, HeadlineOf(line, st.current_category, TRUE, tab, n))]
         ELSE st)

\* lines 401-404 over the flags left by the tabs before
TabStart(st) ==
  [st EXCEPT !.current_category = T_Uncategorized, !.in_insides_section = FALSE,
             !.past_insides_section = FALSE, !.in_headlines_section = FALSE]

\* the tab loop of lines 395-459 that goes on after a tab with headlines
RECURSIVE HeadlinesTabs_AllTabs(_, _, _)
HeadlinesTabs_AllTabs(tabs, t, st) ==
  IF t > Len(tabs) THEN st
  ELSE IF ~HasLine(tabs[t], W_headlines) /\ ~HasLine(tabs[t], W_insides)
  THEN HeadlinesTabs_AllTabs(tabs, t + 1, st)
  ELSE HeadlinesTabs_AllTabs(tabs, t + 1, HeadlinesTabLines(tabs[t], 1, t, TabStart(st)))

\* the tab loop of lines 395-459, from tab t on
RECURSIVE HeadlinesTabs(_, _, _)
HeadlinesTabs(tabs, t, st) ==
  IF t > Len(tabs) THEN st
  ELSE IF ~HasLine(tabs[t], W_headlines) /\ ~HasLine(tabs[t], W_insides)
  THEN HeadlinesTabs(tabs, t + 1, st)
  ELSE LET after == HeadlinesTabLines(tabs[t], 1, t, TabStart(st))
       IN IF after.headlines_found THEN after ELSE HeadlinesTabs(tabs, t + 1, after)

\* first tab with a line "NEWS:", 0 when there is none
FirstNewsTab(tabs) ==
  IF \E t \in 1..Len(tabs) : \E i \in 1..Len(tabs[t]) : tabs[t][i] = W_NEWS \o <<":">>
  THEN CHOOSE t \in 1..Len(tabs) :
         /\ \E i \in 1..Len(tabs[t]) : tabs[t][i] = W_NEWS \o <<":">>
         /\ \A e \in 1..(t-1) : \A i \in 1..Len(tabs[e]) : tabs[e][i] # W_NEWS \o <<":">>
  ELSE 0

\* lines 470-487: the lines after the NEWS: marker
RECURSIVE NewsHeadlines(_, _, _, _, _)
NewsHeadlines(lines, n, tab, current_category, headlines) ==
  IF n > Len(lines) THEN headlines
  ELSE LET next_line == lines[n] IN
       IF ~HasColon(next_line) \/ EndsWithColon(next_line)
       THEN NewsHeadlines(lines, n + 1, tab,
                          IF EndsWithColon(next_line) THEN RStripColon(next_line)
                          ELSE current_category,
                          headlines)
       ELSE NewsHeadlines(lines, n + 1, tab, current_category,
                          Append(headlines, HeadlineOf(next_line, current_category, FALSE, tab, n)))

\* lines 390-496: a document with tabs
ParseHeadlinesTabs(tabs) ==
  LET st == HeadlinesTabs(tabs, 1,
              [ current_category |-> T_Uncategorized, in_insides_section |-> FALSE,
                past_insides_section |-> FALSE, in_headlines_section |-> FALSE,
                headlines_found |-> FALSE, insides_section_found |-> FALSE,
                headlines |-> <<>> ])
      t == FirstNewsTab(tabs)
  IN IF st.headlines_found THEN st.headlines
     ELSE IF ~st.insides_section_found /\ t # 0
     THEN NewsHeadlines(tabs[t], FirstAt(tabs[t], <<W_NEWS \o <<":">>>>) + 1, t, W_NEWS, <<>>)
     ELSE <<>>

\* lines 534-566: the lines after the Headlines line, up to an end marker
RECURSIVE HeadlinesBodyLines(_, _, _, _)
HeadlinesBodyLines(all_lines, n, current_category, headlines) ==
  IF n > Len(all_lines) THEN headlines
  ELSE LET line == all_lines[n] IN
       IF Lower(line) = W_newscast \/ Lower(line) = W_cutlines THEN headlines
       ELSE IF EndsWithColon(line)
       THEN HeadlinesBodyLines(all_lines, n + 1, RStripColon(line), headlines)
       ELSE IF ~HasColon(line)
       THEN HeadlinesBodyLines(all_lines, n + 1, current_category, headlines)
       ELSE HeadlinesBodyLines(all_lines, n + 1, current_category,
                               Append(headlines, HeadlineOf(line, current_category, TRUE, 0, n)))

\* index of the first line whose lower-case text is word, 0 when none
FirstLine(lines, word) ==
  IF HasLine(lines, word)
  THEN CHOOSE i \in 1..Len(lines) :
         Lower(lines[i]) = word /\ \A j \in 1..(i-1) : Lower(lines[j]) # word
  ELSE 0

\* lines 497-568: a document without tabs
ParseHeadlinesBody(all_lines) ==
  IF FirstLine(all_lines, W_headlines) = 0 THEN <<>>
  ELSE HeadlinesBodyLines(all_lines, FirstLine(all_lines, W_headlines) + 1, T_Uncategorized, <<>>)

\* parse_headlines_doc
ParseHeadlinesDoc(doc) ==
  IF doc.tabs # <<>> THEN ParseHeadlinesTabs(doc.tabs) ELSE ParseHeadlinesBody(doc.body)

\* lines 669-684: [cutline_text, photo_credit] of the text after the slug
CreditParts(text) ==
  LET credit_parts ==
        IF Contains(W_PHOTO_CREDIT, text) THEN SplitOnce(text, W_PHOTO_CREDIT)
        ELSE IF Contains(W_PHOTO_CREDITS, text) THEN SplitOnce(text, W_PHOTO_CREDITS)
        ELSE <<text>>
      after == IF Len(credit_parts) > 1 THEN Strip(credit_parts[2]) ELSE NoText
  IN IF Len(credit_parts) = 1 THEN <<text, NoText>>
     ELSE << Strip(credit_parts[1]),
             IF Len(after) > 0 /\ after[1] = ":" THEN Strip(Tail(after)) ELSE after >>

\* lines 658-692: the dictionary appended to cutlines
CutlineOf(line0, current_category, tab, n) ==
  LET line == IF line0[1] = "*" THEN Strip(Tail(line0)) ELSE line0
      parts == SplitOnce(line, <<":">>)
      credit == CreditParts(Strip(parts[2]))
  IN [ slug |-> Strip(parts[1]), cutline |-> credit[1], photo_credit |-> credit[2],
       category |-> current_category, original |-> line,
       tab |-> tab, line_no |-> n ]

\* lines 640-692, 713-763 and 809-857: the lines from the n-th on;
\* skip_marker: the loop skips the Cutlines lines (lines 642-643)
RECURSIVE CutlineLines(_, _, _, _, _, _)
CutlineLines(lines, n, tab, skip_marker, current_category, cutlines) ==
  IF n > Len(lines) THEN cutlines
  ELSE LET line == lines[n] IN
       IF skip_marker /\ Lower(line) = W_cutlines
       THEN CutlineLines(lines, n + 1, tab, skip_marker, current_category, cutlines)
       ELSE IF EndsWithColon(line) /\ ~HasColon(SubSeq(line, 1, Len(line) - 1))
       THEN CutlineLines(lines, n + 1, tab, skip_marker, RStripColon(line), cutlines)
       ELSE IF HasColon(line)
       THEN CutlineLines(lines, n + 1, tab, skip_marker, current_category,
                         Append(cutlines, CutlineOf(line, current_category, tab, n)))
       ELSE CutlineLines(lines, n + 1, tab, skip_marker, current_category, cutlines)

\* lines 627-777: a document with tabs
ParseCutlinesTabs(tabs) ==
  IF \E t \in 1..Len(tabs) : HasLine(tabs[t], W_cutlines)
  THEN LET t == CHOOSE k \in 1..Len(tabs) :
                  HasLine(tabs[k], W_cutlines) /\ \A e \in 1..(k-1) : ~HasLine(tabs[e], W_cutlines)
       IN CutlineLines(tabs[t], 1, t, TRUE, T_Uncategorized, <<>>)
  ELSE IF FirstNewsTab(tabs) # 0
  THEN LET t == FirstNewsTab(tabs)
       IN CutlineLines(tabs[t], FirstAt(tabs[t], <<W_NEWS \o <<":">>>>) + 1, t, FALSE, W_NEWS, <<>>)
  ELSE <<>>

\* lines 778-864: a document without tabs
ParseCutlinesBody(all_lines) ==
  IF FirstLine(all_lines, W_cutlines) = 0 THEN <<>>
  ELSE CutlineLines(all_lines, FirstLine(all_lines, W_cutlines) + 1, 0, FALSE,
                    T_Uncategorized, <<>>)

\* parse_cutlines_doc
ParseCutlinesDoc(doc) ==
  IF doc.tabs # <<>> THEN ParseCutlinesTabs(doc.tabs) ELSE ParseCutlinesBody(doc.body)

(***************************************************************************)
(* Documents the parsers are run on                                        *)
(***************************************************************************)
MaxHeadlineLines == 4
MaxCutlineLines == 3

L_Headlines == <<"H","e","a","d","l","i","n","e","s">>
L_Insides   == <<"I","n","s","i","d","e","s">>
L_Cutlines  == <<"C","u","t","l","i","n","e","s">>
L_NEWS      == <<"N","E","W","S",":">>
L_Entry     == <<"a",":"," ","x">>
L_NoSlug    == <<":"," ","x">>
L_Example   == <<"*","j","d","o","e",":"," ","P","l","a","y","e","r"," ","s","m","i","l","e","s"," ","P","H","O","T","O"," ","C","R","E","D","I","T",":"," ","J","."," ","S","m","i","t","h">>
L_Credits   == <<"*","b",":"," ","t"," ","P","H","O","T","O"," ","C","R","E","D","I","T","S",":"," ","J","."," ","S">>
L_NoColon   == <<"c",":"," ","t"," ","P","H","O","T","O"," ","C","R","E","D","I","T"," ","J","."," ","S">>
L_NoText    == <<"d",":"," ","P","H","O","T","O"," ","C","R","E","D","I","T",":"," ","J">>

HeadlineLineKinds == {L_Headlines, L_Insides, L_Cutlines, L_NEWS, L_Entry, L_NoSlug}

\* headline lines with the subhead marker, after a plain title and after a
\* title that ends with a colon
L_Subhead      == <<"h",":"," ","T"," ","S","H",":"," ","s">>
L_SubheadColon == <<"h",":"," ","T",":"," ","S","H",":"," ","s">>

SubheadLineKinds == {L_Headlines, L_NEWS, L_Subhead, L_SubheadColon}

CutlineLineKinds ==
  {L_Cutlines, L_NEWS, L_Entry, L_NoSlug, L_Example, L_Credits, L_NoColon, L_NoText}

\* the ways to cut lines into one tab or two, each with a line
TabsOf(lines) ==
  IF lines = <<>> THEN {}
  ELSE {<<lines>>} \cup
       {<<SubSeq(lines, 1, c), SubSeq(lines, c + 1, Len(lines))>> : c \in 1..(Len(lines) - 1)}

\* the documents of the lines: the lines as the body, and cut into tabs
DocsOf(lines) ==
  {[tabs |-> <<>>, body |-> lines]} \cup {[tabs |-> tabs, body |-> <<>>] : tabs \in TabsOf(lines)}

\* parse_headlines_doc(doc_id) on a document of at most MaxHeadlineLines lines
CallParseHeadlinesDoc ==
  /\ pc = "documents"
  /\ last_call = NoCall
  /\ \E k \in 0..MaxHeadlineLines, kinds \in {HeadlineLineKinds, SubheadLineKinds} :
     \E lines \in [1..k -> kinds] :
       \E doc \in DocsOf(lines) :
         last_call' = [ n |-> 1, fn |-> "parse_headlines_doc", doc |-> doc,
                        result |-> ParseHeadlinesDoc(doc) ]
  /\ UNCHANGED <<scanVars, mainVars>>

\* parse_cutlines_doc(doc_id) on a document of at most MaxCutlineLines lines
CallParseCutlinesDoc ==
  /\ pc = "documents"
  /\ last_call = NoCall
  /\ \E k \in 0..MaxCutlineLines : \E lines \in [1..k -> CutlineLineKinds] :
       \E doc \in DocsOf(lines) :
         last_call' = [ n |-> 1, fn |-> "parse_cutlines_doc", doc |-> doc,
                        result |-> ParseCutlinesDoc(doc) ]
  /\ UNCHANGED <<scanVars, mainVars>>

DocsInit ==
  /\ rows = <<>>
  /\ row_idx = 0
  /\ current_section = T_Uncategorized
  /\ eligible_rows = <<>>
  /\ MainIdle("documents")

DocsNext ==
  \/ CallParseHeadlinesDoc
  \/ CallParseCutlinesDoc

SpecDocs == DocsInit /\ [][DocsNext]_vars

(***************************************************************************)
(* parse_redaction_doc: the prompt for the line where the redaction starts *)
(*   last_call holds the local variables of the call: all_lines,           *)
(*   user_input, start_line, the last key read, whether the prompt was     *)
(*   shown, and the value returned                                         *)
(***************************************************************************)
MaxDocLines == 5
MaxInput == 2

\* the stripped paragraphs of the document: empty ones and two texts
RedactionLineKinds == {NoText, <<"p">>, <<"q">>}

\* the digit keys pressed
DigitKeys == {"0", "1", "2", "5"}

\* the value returned when the call raises
W_ErrorParsing == <<"E","r","r","o","r"," ","p","a","r","s","i","n","g"," ","d","o","c","u","m","e","n","t",":"," ","e">>

\* lines 275-277: the empty lines at the beginning are removed
RECURSIVE DropLeadingEmpty(_)
DropLeadingEmpty(all_lines) ==
  IF all_lines # <<>> /\ all_lines[1] = NoText THEN DropLeadingEmpty(Tail(all_lines))
  ELSE all_lines

\* '\n'.join(lines)
RECURSIVE JoinNewline(_)
JoinNewline(lines) ==
  IF Len(lines) = 0 THEN <<>>
  ELSE IF Len(lines) = 1 THEN lines[1]
  ELSE lines[1] \o <<"\n">> \o JoinNewline(Tail(lines))

\* lines 324-325: '\n'.join([line for line in all_lines[start_idx:] if line])
\* seq[start_idx:] of Python, start_idx counted from 0 and from the end when
\* negative
SliceFrom(seq, start_idx) ==
  LET from == IF start_idx >= 0 THEN start_idx
              ELSE IF Len(seq) + start_idx >= 0 THEN Len(seq) + start_idx ELSE 0
  IN IF from >= Len(seq) THEN <<>> ELSE SubSeq(seq, from + 1, Len(seq))

RedactionFrom(all_lines, start_line) ==
  JoinNewline(SelectSeq(SliceFrom(all_lines, start_line - 1), LAMBDA line : line # NoText))

AtPrompt == last_call.fn = "parse_redaction_doc" /\ last_call.at = "prompt"

\* lines 324-336: the call returns the redaction from start_line on
ReturnFrom(start_line, key) ==
  last_call' = [last_call EXCEPT !.at = "returned", !.key = key, !.start_line = start_line,
                                 !.result = RedactionFrom(last_call.all_lines, start_line)]

\* lines 262-297: the document is read; an empty one returns "", another
\* one is shown and the prompt starts with the default line 4
OpenRedactionDoc ==
  /\ pc = "redaction_doc"
  /\ last_call = NoCall
  /\ \E k \in 0..MaxDocLines : \E content \in [1..k -> RedactionLineKinds] :
       \E all_lines \in {DropLeadingEmpty(content)} :
         last_call' = [ n |-> 1, fn |-> "parse_redaction_doc", all_lines |-> all_lines,
                        user_input |-> <<>>, start_line |-> 4, key |-> "none",
                        prompted |-> all_lines # <<>>,
                        at |-> IF all_lines = <<>> THEN "returned" ELSE "prompt",
                        result |-> <<>> ]
  /\ UNCHANGED <<scanVars, mainVars>>

\* lines 338-340: the fetch of the document or the read of a key raises
RedactionRaises ==
  /\ pc = "redaction_doc"
  /\ \/ /\ last_call = NoCall
        /\ last_call' = [ n |-> 1, fn |-> "parse_redaction_doc", all_lines |-> <<>>,
                          user_input |-> <<>>, start_line |-> 4, key |-> "none",
                          prompted |-> FALSE, at |-> "raised", result |-> W_ErrorParsing ]
     \/ /\ AtPrompt
        /\ last_call' = [last_call EXCEPT !.at = "raised", !.key = "none",
                                          !.result = W_ErrorParsing]
  /\ UNCHANGED <<scanVars, mainVars>>

\* lines 301-303: the spacebar
KeySpace ==
  /\ pc = "redaction_doc"
  /\ AtPrompt
  /\ ReturnFrom(last_call.start_line, "space")
  /\ UNCHANGED <<scanVars, mainVars>>

\* Enter accepting every number typed
KeyEnter_NoRange ==
  /\ pc = "redaction_doc"
  /\ AtPrompt
  /\ IF last_call.user_input # <<>>
     THEN ReturnFrom(TextToInt(last_call.user_input), "enter")
     ELSE ReturnFrom(last_call.start_line, "enter")
  /\ UNCHANGED <<scanVars, mainVars>>

\* lines 304-314: Enter
KeyEnter ==
  /\ pc = "redaction_doc"
  /\ AtPrompt
  /\ IF /\ last_call.user_input # <<>>
        /\ 1 <= TextToInt(last_call.user_input)
        /\ TextToInt(last_call.user_input) <= Len(last_call.all_lines)
     THEN ReturnFrom(TextToInt(last_call.user_input), "enter")
     ELSE IF last_call.user_input = <<>>
     THEN ReturnFrom(last_call.start_line, "enter")
     ELSE last_call' = [last_call EXCEPT !.user_input = <<>>, !.key = "enter"]
  /\ UNCHANGED <<scanVars, mainVars>>

\* lines 315-317: a digit key
KeyDigit ==
  /\ pc = "redaction_doc"
  /\ AtPrompt
  /\ Len(last_call.user_input) < MaxInput
  /\ \E char \in DigitKeys :
       last_call' = [last_call EXCEPT !.user_input = Append(@, char), !.key = "digit"]
  /\ UNCHANGED <<scanVars, mainVars>>

\* lines 318-321: backspace
KeyBackspace ==
  /\ pc = "redaction_doc"
  /\ AtPrompt
  /\ last_call' =
       [last_call EXCEPT !.key = "backspace",
                         !.user_input = IF @ # <<>> THEN SubSeq(@, 1, Len(@) - 1) ELSE @]
  /\ UNCHANGED <<scanVars, mainVars>>

RedactionInit ==
  /\ rows = <<>>
  /\ row_idx = 0
  /\ current_section = T_Uncategorized
  /\ eligible_rows = <<>>
  /\ MainIdle("redaction_doc")

RedactionNext ==
  \/ OpenRedactionDoc
  \/ RedactionRaises
  \/ KeySpace
  \/ KeyEnter
  \/ KeyDigit
  \/ KeyBackspace

SpecRedaction == RedactionInit /\ [][RedactionNext]_vars

(***************************************************************************)
(* upload_image_to_wordpress: the attempts of one call                     *)
(*   last_call.log is the sequence of what the call did: one entry per     *)
(*   upload request, named by its answer, and one per time.sleep           *)
(***************************************************************************)
MaxRetries == 3

\* the answers to POST /wp/v2/media: a status code, or "raise" when
\* requests.post raises
UploadAnswers == {"201", "400", "500", "raise"}

\* the callers: process_image_from_url (max_retries=2, retry_delay=2),
\* handle_image_fallback (3, 3), and a call with the default retry_delay
UploadCallers ==
  { [path |-> "url", max_retries |-> 2, retry_delay |-> 2],
    [path |-> "local", max_retries |-> 3, retry_delay |-> 3] }
  \cup { [path |-> "direct", max_retries |-> m, retry_delay |-> 3] : m \in 0..MaxRetries }

Uploading == last_call.fn = "upload_image_to_wordpress" /\ last_call.at = "loop"

unchangedByUpload ==
  <<scanVars, pc, cur, post_info, redaction, featured_media_id, author_id, category_ids,
    successful_posts, failed_posts, skipped_posts, summary, wp_users, wp_posts,
    sheet_writes, faults>>

\* lines 196-203: the call; without image data, or with no attempt to
\* make, it returns None at once
CallUploadImage ==
  /\ pc = "upload"
  /\ last_call = NoCall
  /\ \E caller \in UploadCallers, has_data \in BOOLEAN :
       last_call' = [ n |-> 1, fn |-> "upload_image_to_wordpress", path |-> caller.path,
                      max_retries |-> caller.max_retries, retry_delay |-> caller.retry_delay,
                      has_data |-> has_data, attempt |-> 1, log |-> <<>>,
                      at |-> IF has_data /\ caller.max_retries >= 1 THEN "loop" ELSE "returned",
                      result |-> 0 ]
  /\ UNCHANGED <<unchangedByUpload, wp_media>>

\* one attempt that goes on while attempt <= max_retries
UploadAttempt_OneMore ==
  /\ pc = "upload"
  /\ Uploading
  /\ \E answer \in UploadAnswers :
       IF answer = "201"
       THEN /\ wp_media' = wp_media + 1
            /\ last_call' = [last_call EXCEPT !.log = Append(@, [ev |-> answer, n |-> last_call.attempt]),
                                              !.at = "returned", !.result = wp_media + 1]
       ELSE /\ wp_media' = wp_media
            /\ IF last_call.attempt <= last_call.max_retries
               THEN last_call' =
                      [last_call EXCEPT !.log = @ \o << [ev |-> answer, n |-> last_call.attempt],
                                                        [ev |-> "sleep", n |-> last_call.retry_delay] >>,
                                        !.attempt = @ + 1]
               ELSE last_call' =
                      [last_call EXCEPT !.log = Append(@, [ev |-> answer, n |-> last_call.attempt]),
                                        !.at = "returned", !.result = 0]
  /\ UNCHANGED unchangedByUpload

\* lines 205-254: one iteration of the loop over range(1, max_retries + 1)
UploadAttempt ==
  /\ pc = "upload"
  /\ Uploading
  /\ \E answer \in UploadAnswers :
       IF answer = "201"
       THEN /\ wp_media' = wp_media + 1
            /\ last_call' = [last_call EXCEPT !.log = Append(@, [ev |-> answer, n |-> last_call.attempt]),
                                              !.at = "returned", !.result = wp_media + 1]
       ELSE /\ wp_media' = wp_media
            /\ IF last_call.attempt < last_call.max_retries
               THEN last_call' =
                      [last_call EXCEPT !.log = @ \o << [ev |-> answer, n |-> last_call.attempt],
                                                        [ev |-> "sleep", n |-> last_call.retry_delay] >>,
                                        !.attempt = @ + 1]
               ELSE last_call' =
                      [last_call EXCEPT !.log = Append(@, [ev |-> answer, n |-> last_call.attempt]),
                                        !.at = "returned", !.result = 0]
  /\ UNCHANGED unchangedByUpload

UploadInit ==
  /\ rows = <<>>
  /\ row_idx = 0
  /\ current_section = T_Uncategorized
  /\ eligible_rows = <<>>
  /\ MainIdle("upload")

UploadNext ==
  \/ CallUploadImage
  \/ UploadAttempt

SpecUpload == UploadInit /\ [][UploadNext]_vars

(***************************************************************************)
(* Properties of the scan                                                  *)
(***************************************************************************)
\* The sheet row a record was built from: record.row is the sheet's row
\* number, rows[1] is sheet row 8.
SourceRow(rec) == rows[rec.row - HeaderRows]

RecordsOfRow(k) == {i \in 1..Len(eligible_rows) : eligible_rows[i].row = k + HeaderRows}

\* a section-header row: non-blank text in column A, no formatted value in
\* columns B, D and E
HeaderShape(values) ==
  /\ values # <<>>
  /\ "formattedValue" \in values[1].keys
  /\ \E i \in 1..Len(values[1].fv) : values[1].fv[i] \notin Whitespace
  /\ \A c \in {2, 4, 5} : Len(values) >= c => "formattedValue" \notin values[c].keys

\* the formatted value of the 1-based column c upper-cased is a truthy word
Ticked(values, c) ==
  /\ Len(values) >= c
  /\ "formattedValue" \in values[c].keys
  /\ Upper(values[c].fv) \in { <<"T","R","U","E">>, <<CheckMark>>, <<"Y","E","S">>, <<"1">> }

\* s[i..j] is an http:// or https:// token that ends at the first whitespace
IsUrlToken(s, i, j) ==
  /\ 1 <= i /\ i <= j /\ j <= Len(s)
  /\ j = Len(s) \/ s[j + 1] \in Whitespace
  /\ \A k \in i..j : s[k] \notin Whitespace
  /\ \/ j >= i + 7 /\ SubSeq(s, i, i + 6) = <<"h","t","t","p",":","/","/">>
     \/ j >= i + 8 /\ SubSeq(s, i, i + 7) = <<"h","t","t","p","s",":","/","/">>

\* the positions where a scheme starts, and those where a word ends
SchemeStarts(s) ==
  {i \in 1..Len(s) : \/ StartsAt(s, i, <<"h","t","t","p",":","/","/">>)
                     \/ StartsAt(s, i, <<"h","t","t","p","s",":","/","/">>)}

WordEnds(s) ==
  {j \in 1..Len(s) : s[j] \notin Whitespace /\ (j = Len(s) \/ s[j + 1] \in Whitespace)}

UrlTokens(s) == {t \in SchemeStarts(s) \X WordEnds(s) : IsUrlToken(s, t[1], t[2])}

\* the link of a cell by the fixed priority run link, cell link, text token
LinkByPriority(cell) ==
  LET linked == {i \in 1..Len(cell.runs) : cell.runs[i].haslink}
      tokens == UrlTokens(cell.fv)
  IN IF "textFormatRuns" \in cell.keys /\ linked # {}
     THEN cell.runs[CHOOSE i \in linked : \A j \in linked : i <= j].uri
     ELSE IF "hyperlink" \in cell.keys THEN cell.hyperlink
     ELSE IF "formattedValue" \in cell.keys /\ tokens # {}
     THEN LET t == CHOOSE t \in tokens : \A u \in tokens : t[1] <= u[1]
          IN SubSeq(cell.fv, t[1], t[2])
     ELSE NoText

ColumnCell(values, c) == IF Len(values) >= c THEN values[c] ELSE EmptyCell

\* the label in force at the k-th scanned row: the trimmed text of the
\* nearest header row above it, "Uncategorized" when there is none
SectionInForce(k) ==
  LET hs == {j \in 1..(k - 1) : HeaderShape(rows[j])}
  IN IF hs = {} THEN T_Uncategorized
     ELSE Strip(rows[CHOOSE j \in hs : \A h \in hs : h <= j][1].fv)

\* C1: a scanned row that is neither empty nor a section header yields a
\* record iff its ready cell upper-cased is truthy, its online cell
\* upper-cased is not, and a story URL was resolved from column E; a row that
\* is not ready is never returned; each row is returned at most once, in
\* sheet order.
C1_Eligibility ==
  /\ \A k \in 1..row_idx :
       LET v == rows[k] IN
       /\ (v # <<>> /\ ~HeaderShape(v)) =>
            ( (RecordsOfRow(k) # {})
              <=> ( /\ Ticked(v, 2)
                    /\ ~Ticked(v, 4)
                    /\ LinkByPriority(ColumnCell(v, 5)) # NoText ) )
       /\ ~Ticked(v, 2) => RecordsOfRow(k) = {}
       /\ Cardinality(RecordsOfRow(k)) <= 1
  /\ \A i \in 1..Len(eligible_rows) :
       /\ eligible_rows[i].row - HeaderRows \in 1..row_idx
       /\ \A j \in 1..Len(eligible_rows) : i < j => eligible_rows[i].row < eligible_rows[j].row

\* the scan returned a record, and passed over a row with ready FALSE, online
\* FALSE and a story link
C1_Witness ==
  /\ pc = "returned"
  /\ eligible_rows # <<>>
  /\ \E k \in 1..Len(rows) :
       /\ Len(rows[k]) >= 5
       /\ CellText(rows[k], 1) = T_FALSE
       /\ CellText(rows[k], 3) = T_FALSE
       /\ LinkByPriority(rows[k][5]) # NoText
       /\ RecordsOfRow(k) = {}

\* C2: the URL of a record's story, image, headlines and cutlines cell is the
\* one of highest priority: the first linked run's URI, else the cell's
\* hyperlink, else the first http(s) token of the text up to whitespace, else
\* none; a ready, not online row without any is not returned.
C2_LinkPriority ==
  /\ \A i \in 1..Len(eligible_rows) :
       LET rec == eligible_rows[i]
           v == SourceRow(rec)
       IN /\ rec.doc_url = LinkByPriority(ColumnCell(v, 5))
          /\ rec.image_url = LinkByPriority(ColumnCell(v, 14))
          /\ rec.headlines_url = LinkByPriority(ColumnCell(v, 16))
          /\ rec.cutlines_url = LinkByPriority(ColumnCell(v, 17))
  /\ \A k \in 1..row_idx :
       LinkByPriority(ColumnCell(rows[k], 5)) = NoText => RecordsOfRow(k) = {}

\* a record whose story cell has a linked run and a different cell link, and
\* a record whose story URL is a token cut out of the cell's text
C2_Witness ==
  /\ \E i \in 1..Len(eligible_rows) :
       LET c == SourceRow(eligible_rows[i])[5]
       IN /\ "hyperlink" \in c.keys
          /\ \E r \in 1..Len(c.runs) : c.runs[r].haslink /\ c.runs[r].uri # c.hyperlink
          /\ eligible_rows[i].doc_url # c.hyperlink
  /\ \E i \in 1..Len(eligible_rows) :
       LET c == SourceRow(eligible_rows[i])[5]
       IN /\ c.keys = {"formattedValue"}
          /\ eligible_rows[i].doc_url # c.fv
          /\ Len(eligible_rows[i].doc_url) > 0

\* column O (the 15th) is missing from the row or holds no text
NoCategoryText(values) ==
  \/ Len(values) < 15
  \/ "formattedValue" \notin values[15].keys
  \/ \A i \in 1..Len(values[15].fv) : values[15].fv[i] \in Whitespace

\* C3: a record whose categories column is missing or empty has categories
\* exactly [the section label in force at its row].
C3_CategoryFallback ==
  \A i \in 1..Len(eligible_rows) :
    NoCategoryText(SourceRow(eligible_rows[i])) =>
      eligible_rows[i].categories = <<SectionInForce(eligible_rows[i].row - HeaderRows)>>

\* two records under the header "Sports", both without category text
C3_Witness ==
  /\ Len(eligible_rows) = 2
  /\ HeaderShape(rows[1])
  /\ \A i \in 1..2 :
       /\ NoCategoryText(SourceRow(eligible_rows[i]))
       /\ eligible_rows[i].categories = <<T_Sports>>

\* C4: the current section is the trimmed text of the nearest header row
\* scanned so far ("Uncategorized" before the first), so it changes on header
\* rows only; no record is built from a header row; each record's section is
\* the label in force at its row.
C4_SectionFrame ==
  /\ current_section = SectionInForce(row_idx + 1)
  /\ \A i \in 1..Len(eligible_rows) :
       /\ ~HeaderShape(SourceRow(eligible_rows[i]))
       /\ eligible_rows[i].section = SectionInForce(eligible_rows[i].row - HeaderRows)

\* a header row, then a row that is passed over, then a returned row that
\* still carries the header's label
C4_Witness ==
  /\ Len(rows) = 3
  /\ HeaderShape(rows[1])
  /\ rows[2] # <<>> /\ RecordsOfRow(2) = {}
  /\ \E i \in 1..Len(eligible_rows) :
       /\ eligible_rows[i].row = 10
       /\ eligible_rows[i].section = Strip(rows[1][1].fv)
       /\ eligible_rows[i].section # T_Uncategorized

(***************************************************************************)
(* Properties of the batch                                                 *)
(***************************************************************************)
\* the request that ticks the online cell of a record: column D (index 3)
\* of the record's grid row (0-based: the sheet row number minus one)
OwnOnlineCell(rec) ==
  [ startRowIndex |-> rec.row - 1, endRowIndex |-> rec.row,
    startColumnIndex |-> 3, endColumnIndex |-> 4 ]

\* the sheet after differs from the sheet before in column D of its k-th
\* data row only, which is truthy after
OnlyOnlineCellSet(before, after, k) ==
  /\ Len(after) = Len(before)
  /\ \A j \in 1..Len(before) : j # k => after[j] = before[j]
  /\ Len(after[k]) >= 4
  /\ Len(after[k]) >= Len(before[k])
  /\ Ticked(after[k], 4)
  /\ \A c \in 1..Len(after[k]) : c # 4 => after[k][c] = ColumnCell(before[k], c)

\* the row at the decision prompt has its author and its categories resolved
\* and its image uploaded
C5_Case ==
  /\ author_id # 0
  /\ category_ids # <<>>
  /\ featured_media_id # 0

\* the step records the row as Published with the three statuses, and a
\* sheet write of the step ticks column D of the row the record was built
\* from: the row at scan index i (0-based, after the 7 header rows) writes
\* sheet row i + 8
C5_Outcome ==
  LET rec  == eligible_rows[cur]
      k    == rec.row - HeaderRows
      done == successful_posts'[Len(successful_posts')]
  IN /\ Len(successful_posts') = Len(successful_posts) + 1
     /\ SubSeq(successful_posts', 1, Len(successful_posts)) = successful_posts
     /\ failed_posts' = failed_posts
     /\ skipped_posts' = skipped_posts
     /\ done.row = rec.row
     /\ done.status = "Published"
     /\ done.author_status.applied = 1
     /\ done.category_status.applied = Len(category_ids)
     /\ done.image_status.has_image
     /\ k \in 1..Len(rows)
     /\ rec.row = (k - 1) + 8
     /\ Ticked(rows[k], 2) /\ ~Ticked(rows[k], 4)
     /\ rec.doc_url = LinkByPriority(ColumnCell(rows[k], 5))
     /\ IF sheet_writes' # sheet_writes
        THEN /\ sheet_writes' = Append(sheet_writes, OwnOnlineCell(rec))
             /\ OnlyOnlineCellSet(rows, rows', k)
             /\ done.sheet_update_status = "Updated successfully"
        ELSE /\ rows' = rows
             /\ done.sheet_update_status = "Update failed"

C6_AsWritten ==
  [][(wp_users' # wp_users \/ rows' # rows) =>
       /\ cur \in 1..Len(eligible_rows)
       /\ \E i \in 1..Len(wp_posts') :
            /\ wp_posts'[i].row = eligible_rows[cur].row
            /\ wp_posts'[i].status = "publish"]_vars

\* C7 as written: once a row's exception is caught the row is the last of
\* the failed list, with status Failed and the error text, and the next step
\* goes on to the next eligible row with everything else as it was.
C7_AsWritten ==
  [][pc = "except" =>
       /\ failed_posts # <<>>
       /\ failed_posts[Len(failed_posts)].row = eligible_rows[cur].row
       /\ failed_posts[Len(failed_posts)].status = "Failed"
       /\ failed_posts[Len(failed_posts)].error_details # "None"
       /\ pc' = "loop"
       /\ cur' = cur + 1
       /\ UNCHANGED <<rows, eligible_rows, successful_posts, skipped_posts, failed_posts,
                      wp_users, wp_posts, wp_media, sheet_writes>>]_vars

\* the run ended with ESC at the decision prompt of row cur (the only way to
\* end with the status record of a row still in hand)
Aborted == pc = "done" /\ post_info # NoPostInfo

\* C8: when the run was ended with ESC at the prompt of a row, nothing more
\* happens; that row and the later rows have no post, no sheet write and an
\* online cell that is still not truthy; every row recorded before has its
\* post, and its online cell ticked where the sheet took the update.
C8_Exit ==
  Aborted =>
    /\ ~ENABLED MainNext
    /\ cur \in 1..Len(eligible_rows)
    /\ post_info.row = eligible_rows[cur].row
    /\ \A i \in cur..Len(eligible_rows) :
         LET rec == eligible_rows[i] IN
         /\ \A j \in 1..Len(wp_posts) : wp_posts[j].row # rec.row
         /\ \A w \in 1..Len(sheet_writes) : sheet_writes[w].startRowIndex # rec.row - 1
         /\ ~Ticked(rows[rec.row - HeaderRows], 4)
    /\ Len(wp_posts) = Len(successful_posts)
    /\ \A i \in 1..Len(successful_posts) :
         LET p == successful_posts[i] IN
         /\ p.row < eligible_rows[cur].row
         /\ wp_posts[p.post_id].row = p.row
         /\ wp_posts[p.post_id].status = (IF p.status = "Published" THEN "publish" ELSE "draft")
         /\ p.sheet_update_status = "Updated successfully" =>
              /\ Ticked(rows[p.row - HeaderRows], 4)
              /\ \E w \in 1..Len(sheet_writes) : sheet_writes[w] = OwnOnlineCell(p)

\* the first row was published and its online cell ticked, then ESC was
\* pressed at the prompt of the second row
C8_Witness ==
  /\ Aborted
  /\ cur = 2
  /\ Len(successful_posts) = 1
  /\ successful_posts[1].status = "Published"
  /\ successful_posts[1].sheet_update_status = "Updated successfully"
  /\ Ticked(rows[successful_posts[1].row - HeaderRows], 4)

\* the rows whose processing started
Started == 1..(IF cur <= Len(eligible_rows) THEN cur ELSE Len(eligible_rows))

\* the rows the printed summary renders
Rendered ==
  {summary.successful[i].row : i \in 1..Len(summary.successful)}
    \cup {summary.skipped[i].row : i \in 1..Len(summary.skipped)}
    \cup {summary.failed[i].row : i \in 1..Len(summary.failed)}

\* C9 as written: when main has returned, the summary was printed and renders
\* every row whose processing started.
C9_AsWritten ==
  pc = "done" =>
    \A i \in Started : summary.printed /\ eligible_rows[i].row \in Rendered

\* the rows that were decided (publish, draft or skip) or raised an error
Finished ==
  {eligible_rows[i].row : i \in 1..(IF pc \in {"except", "fatal"} THEN cur ELSE cur - 1)}

RowsOf(posts) == {posts[i].row : i \in 1..Len(posts)}

\* each finished row is in exactly one list, once; the lists hold the
\* statuses they are named for; a Published (Draft) record has the post
\* WordPress created for it with status publish (draft), and every post
\* created has its record
C10_Lists ==
  /\ RowsOf(successful_posts) \cup RowsOf(skipped_posts) \cup RowsOf(failed_posts) = Finished
  /\ Len(successful_posts) + Len(skipped_posts) + Len(failed_posts) = Cardinality(Finished)
  /\ \A i \in 1..Len(successful_posts) :
       LET p == successful_posts[i] IN
       /\ p.status \in {"Published", "Draft"}
       /\ p.post_id \in 1..Len(wp_posts)
       /\ wp_posts[p.post_id].row = p.row
       /\ wp_posts[p.post_id].status = (IF p.status = "Published" THEN "publish" ELSE "draft")
  /\ \A i \in 1..Len(skipped_posts) : skipped_posts[i].status = "Skipped"
  /\ \A i \in 1..Len(failed_posts) : failed_posts[i].status = "Failed"
  /\ \A j \in 1..Len(wp_posts) :
       \E i \in 1..Len(successful_posts) : successful_posts[i].post_id = j

\* C10: each row that was decided (publish, draft or skip) or raised an
\* error is in exactly one of the lists successful, skipped, failed, with
\* status Published or Draft in successful, Skipped in skipped, Failed in
\* failed; a row enters skipped only by the skip key, and a Published
\* (Draft) record has a post created with status publish (draft).
C10_Outcome ==
  [][ /\ skipped_posts' # skipped_posts => DecideSkip
      /\ C10_Lists' ]_vars

\* a run that ended with its summary after one row was saved as a draft and
\* another was skipped
C10_Witness ==
  /\ pc = "done"
  /\ summary.printed
  /\ \E i \in 1..Len(successful_posts) : successful_posts[i].status = "Draft"
  /\ skipped_posts # <<>>

\* the status records of the three lists
Recorded == successful_posts \o skipped_posts \o failed_posts

\* C11 as written: a row whose image uploads all failed is in the failed
\* list only, and no post exists for it.
C11_AsWritten ==
  \A i \in 1..Len(Recorded) :
    Recorded[i].image_status.status = "All image upload attempts failed" =>
      /\ Recorded[i].status = "Failed"
      /\ \A j \in 1..Len(wp_posts) : wp_posts[j].row # Recorded[i].row

(***************************************************************************)
(* Properties of the taxonomy functions                                    *)
(***************************************************************************)
\* the last call was a successful get_category_ids
CategoryCall == last_call.fn = "get_category_ids" /\ last_call.fetch = "ok"

AmpToAnd(name) == Replace(Strip(name), <<"&">>, <<"a","n","d">>)
AndToAmp(name) == Replace(Strip(name), <<" ","a","n","d"," ">>, <<" ","&"," ">>)

\* the significant words of a name, in the order of the name
IsSignificant(w) == Len(w) > 2 /\ Lower(w) \notin CommonWords
WordHit(w, c) == Contains(Lower(w), Lower(c.name))

\* category c is matched by stage k for the requested name
StageHit(k, name, c) ==
  CASE k = 1 -> Lower(c.name) = Lower(Strip(name))
    [] k = 2 -> Lower(c.name) \in {Lower(AmpToAnd(name)), Lower(AndToAmp(name))}
    [] k = 3 -> \E v \in {Strip(name), AmpToAnd(name), AndToAmp(name)} :
                  Contains(Lower(v), Lower(c.name))
    [] k = 4 -> \E j \in 1..Len(Words(Strip(name))) :
                  /\ IsSignificant(Words(Strip(name))[j])
                  /\ WordHit(Words(Strip(name))[j], c)

StageMatches(k, name, all) == \E i \in 1..Len(all) : StageHit(k, name, all[i])

\* the earliest stage that matches anything, 0 when no stage does
EarliestStage(name, all) ==
  IF \E k \in 1..4 : StageMatches(k, name, all)
  THEN CHOOSE k \in 1..4 : /\ StageMatches(k, name, all)
                           /\ \A e \in 1..(k-1) : ~StageMatches(e, name, all)
  ELSE 0

\* i is the first category of the list matched by stage k
FirstOfStage(k, name, all, i) ==
  /\ i \in 1..Len(all)
  /\ StageHit(k, name, all[i])
  /\ \A j \in 1..(i-1) : ~StageHit(k, name, all[j])

\* i is the first category of the list containing the first significant
\* word of the name that any category contains
FirstOfFirstWord(name, all, i) ==
  LET words == Words(Strip(name)) IN
  \E j \in 1..Len(words) :
    /\ IsSignificant(words[j])
    /\ \A e \in 1..(j-1) :
         IsSignificant(words[e]) => \A c \in 1..Len(all) : ~WordHit(words[e], all[c])
    /\ i \in 1..Len(all)
    /\ WordHit(words[j], all[i])
    /\ \A c \in 1..(i-1) : ~WordHit(words[j], all[c])

\* the requested name has no exact match and the site has "Arts and Culture"
ArtsCase(name, all) ==
  /\ name = N_ArtsAmpCulture
  /\ ~StageMatches(1, name, all)
  /\ \E i \in 1..Len(all) : all[i].name = N_ArtsAndCulture

\* C12 as written: each requested name takes the first category of the
\* backend list matched by the earliest of the four stages that matches
\* anything.
C12_AsWritten ==
  CategoryCall =>
    \A n \in 1..Len(last_call.categories_list) :
      LET name == last_call.categories_list[n]
          m == last_call.matches[n]
      IN /\ m.stage = EarliestStage(name, last_call.all)
         /\ m.stage # 0 => FirstOfStage(m.stage, name, last_call.all, m.idx)

\* C12: for each requested name get_category_ids uses the earliest of the
\* four stages (equality, equality after & / and replacement, containment of
\* the name or a variant, containment of a significant word) that matches any
\* category of the backend list; in stages 1 to 3 it takes the first category
\* of the list the stage matches, in stage 4 the first category containing the
\* first significant word that any category contains; the ID of the category
\* taken is in the result; "Arts & Culture" resolves to "Arts and Culture" by
\* stage 2 when there is no exact match.
C12_Cascade ==
  CategoryCall =>
    \A n \in 1..Len(last_call.categories_list) :
      LET name == last_call.categories_list[n]
          all == last_call.all
          m == last_call.matches[n]
      IN /\ m.stage = EarliestStage(name, all)
         /\ m.stage \in 1..3 => FirstOfStage(m.stage, name, all, m.idx)
         /\ m.stage = 4 => FirstOfFirstWord(name, all, m.idx)
         /\ m.stage # 0 =>
              \E r \in 1..Len(last_call.result) : last_call.result[r] = all[m.idx].id
         /\ ArtsCase(name, all) => m.stage = 2 /\ all[m.idx].name = N_ArtsAndCulture

\* "Arts & Culture" was requested from the site that has "Arts and Culture"
C12_Witness ==
  /\ CategoryCall
  /\ last_call.categories_list = <<N_ArtsAmpCulture>>
  /\ last_call.all = WpCategories
  /\ last_call.matches[1].stage = 2
  /\ last_call.result = <<4>>

\* the ID the n-th requested name of the last call resolved to, 0 when the
\* name matched nothing
IdOfName(n) ==
  IF last_call.matches[n].idx = 0 THEN 0
  ELSE last_call.all[last_call.matches[n].idx].id

\* the first requested name that resolved to the ID
FirstName(id) ==
  CHOOSE n \in 1..Len(last_call.categories_list) :
    /\ IdOfName(n) = id
    /\ \A e \in 1..(n-1) : IdOfName(e) # id

\* C13: the list returned by get_category_ids holds only IDs of categories of
\* the fetched backend list, each the ID one requested name resolved to and
\* every such ID once, in the order of the first names that resolved to them;
\* a name no stage matches contributes nothing; the call sends no request but
\* the fetch of the categories, and a failed fetch returns the empty list.
C13_Result ==
  /\ last_call.fn = "get_category_ids" =>
       /\ last_call.requests = <<"GET categories">>
       /\ last_call.fetch # "ok" => last_call.result = <<>>
  /\ CategoryCall =>
       LET result == last_call.result
           names == last_call.categories_list
       IN /\ Len(result) <= Len(names)
          /\ \A r \in 1..Len(result) :
               /\ \E i \in 1..Len(last_call.all) : last_call.all[i].id = result[r]
               /\ \E n \in 1..Len(names) : IdOfName(n) = result[r]
               /\ \A q \in 1..Len(result) : q # r => result[q] # result[r]
               /\ \A q \in 1..(r-1) : FirstName(result[q]) < FirstName(result[r])
          /\ \A n \in 1..Len(names) :
               /\ EarliestStage(names[n], last_call.all) = 0 => IdOfName(n) = 0
               /\ IdOfName(n) # 0 => \E r \in 1..Len(result) : result[r] = IdOfName(n)

\* News, Sports and News again were requested and resolved to two IDs; a
\* name that matches nothing was dropped
C13_Witness ==
  /\ CategoryCall
  /\ \/ /\ last_call.categories_list = <<T_News, T_Sports, T_News>>
        /\ last_call.result = <<3, 7>>
     \/ /\ last_call.categories_list = <<N_Opinion, T_News>>
        /\ last_call.result = <<3>>

\* the last call was get_or_create_author_id
AuthorCall == last_call.fn = "get_or_create_author_id"

\* the accounts the call found on the site whose name is the name, whatever
\* the case of the letters
SameName(users, name) ==
  {i \in 1..Len(users) : Lower(users[i].name) = Lower(name)}

\* C14 as written: a call of get_or_create_author_id with the name of an
\* author who exists under exactly that name returns the ID of an existing
\* account of that name, sends no user-create request and leaves the
\* accounts as they were, in the first call and in the second.
C14_AsWritten ==
  (AuthorCall /\ \E i \in 1..Len(last_call.users) :
                   last_call.users[i].name = last_call.author_name) =>
    /\ \E i \in SameName(last_call.users, last_call.author_name) :
         last_call.users[i].id = last_call.result
    /\ last_call.requests = <<"GET users">>
    /\ wp_users = last_call.users

\* the text before the first comma, trimmed
BeforeComma(s) ==
  IF \E i \in 1..Len(s) : s[i] = ","
  THEN Strip(SubSeq(s, 1, (CHOOSE i \in 1..Len(s) :
                             s[i] = "," /\ \A j \in 1..(i-1) : s[j] # ",") - 1))
  ELSE Strip(s)

\* C15: get_or_create_author_id searches for the first comma-separated name
\* only; when the search returns users it returns the ID of a returned user
\* whose name equals that name case-insensitively if there is one, wherever it
\* stands in the list, otherwise the ID of the first returned user, and in
\* both cases sends no user-create request and leaves the accounts as they
\* were; when the search returns nobody the result is no existing account's
\* ID, whoever the other names of the list are.
C15_FirstName ==
  (AuthorCall /\ last_call.search = "ok") =>
    LET primary == BeforeComma(last_call.author_name)
        found == SearchUsers(last_call.users, primary)
    IN /\ found # <<>> =>
            /\ IF SameName(found, primary) # {}
               THEN \E i \in SameName(found, primary) : last_call.result = found[i].id
               ELSE last_call.result = found[1].id
            /\ last_call.requests = <<"GET users">>
            /\ wp_users = last_call.users
       /\ found = <<>> =>
            \A i \in 1..Len(last_call.users) : last_call.users[i].id # last_call.result

\* "Jane Doe, Jo Roe" was resolved on a site where the search returns a
\* longer name before the accounts named Jane Doe
C15_Witness ==
  /\ AuthorCall
  /\ last_call.search = "ok"
  /\ last_call.author_name = T_Authors
  /\ last_call.users = WpUsersFuzzy
  /\ last_call.result = 9

(***************************************************************************)
(* Properties of the document parsers                                      *)
(***************************************************************************)
HeadlinesCall == last_call.fn = "parse_headlines_doc"
CutlinesCall == last_call.fn = "parse_cutlines_doc"

\* the lines an entry can come from: the lines of its tab, or of the body
LinesOfTab(doc, tab) == IF tab = 0 THEN doc.body ELSE doc.tabs[tab]

\* the line of the document the entry e was made from
SourceLine(doc, e) == LinesOfTab(doc, e.tab)[e.line_no]

\* cutline lines of the form [*]slug: text MARKER[:] credit
CreditForms ==
  { [star |-> <<"*">>, slug |-> <<"j","d","o","e">>, text |-> <<"P","l","a","y","e","r"," ","s","m","i","l","e","s">>,
     marker |-> W_PHOTO_CREDIT, colon |-> <<":">>, credit |-> <<"J","."," ","S","m","i","t","h">>],
    [star |-> <<"*">>, slug |-> <<"b">>, text |-> <<"t">>,
     marker |-> W_PHOTO_CREDITS, colon |-> <<":">>, credit |-> <<"J","."," ","S">>],
    [star |-> <<>>, slug |-> <<"c">>, text |-> <<"t">>,
     marker |-> W_PHOTO_CREDIT, colon |-> <<>>, credit |-> <<"J","."," ","S">>] }

FormLine(f) ==
  f.star \o f.slug \o <<":", " ">> \o f.text \o <<" ">> \o f.marker \o f.colon \o <<" ">> \o f.credit

\* C16 as written: an entry made from a line [*]slug: text MARKER[:] credit
\* has that slug, cutline = text and photo_credit = credit.
C16_AsWritten ==
  CutlinesCall =>
    \A i \in 1..Len(last_call.result) : \A f \in CreditForms :
      SourceLine(last_call.doc, last_call.result[i]) = FormLine(f) =>
        /\ last_call.result[i].slug = f.slug
        /\ last_call.result[i].cutline = f.text
        /\ last_call.result[i].photo_credit = f.credit

\* the line is a section marker or a category marker
IsMarkerLine(line) ==
  \/ Lower(line) \in {W_headlines, W_insides, W_cutlines}
  \/ EndsWithColon(line) /\ ~HasColon(SubSeq(line, 1, Len(line) - 1))

\* the text of an option
OptionText(e) == IF HeadlinesCall THEN e.headline ELSE e.cutline

\* C17 as written: every option returned has an identifier and a text that
\* are not empty after trimming, and comes from a line that has a colon and
\* is no section or category marker.
C17_AsWritten ==
  (HeadlinesCall \/ CutlinesCall) =>
    \A i \in 1..Len(last_call.result) :
      LET e == last_call.result[i] IN
      /\ Strip(e.slug) # <<>>
      /\ Strip(OptionText(e)) # <<>>
      /\ HasColon(SourceLine(last_call.doc, e))
      /\ ~IsMarkerLine(SourceLine(last_call.doc, e))

\* the entries without the record of the tab they came from
Untabbed(entries) == [i \in 1..Len(entries) |-> [entries[i] EXCEPT !.tab = 0]]

\* C18 as written: the lines of a document with one tab give the same list
\* of entries when they are the body of a document without tabs.
C18_AsWritten ==
  /\ (HeadlinesCall /\ Len(last_call.doc.tabs) = 1) =>
       Untabbed(last_call.result) =
         ParseHeadlinesDoc([tabs |-> <<>>, body |-> last_call.doc.tabs[1]])
  /\ (CutlinesCall /\ Len(last_call.doc.tabs) = 1) =>
       Untabbed(last_call.result) =
         ParseCutlinesDoc([tabs |-> <<>>, body |-> last_call.doc.tabs[1]])

\* the tabs holding a line that is the section marker word, whatever its case
TabsWithMarker(tabs, word) ==
  {t \in 1..Len(tabs) : \E i \in 1..Len(tabs[t]) : Lower(tabs[t][i]) = word}

\* the tabs holding the line NEWS:
TabsWithNews(tabs) ==
  {t \in 1..Len(tabs) : \E i \in 1..Len(tabs[t]) : tabs[t][i] = L_NEWS}

\* the least number of a set of tab numbers that is not empty
First(S) == CHOOSE t \in S : \A e \in S : t <= e

\* C19: the entries parse_headlines_doc (parse_cutlines_doc) returns for a
\* document with tabs all come from one tab: the first tab in document order
\* holding the Headlines (Cutlines) marker line, or, when no tab holds it,
\* the first tab holding the NEWS: marker line; a document where no tab holds
\* a marker gives no entry.
C19_SingleTab ==
  ((HeadlinesCall \/ CutlinesCall) /\ last_call.doc.tabs # <<>>) =>
    LET tabs == last_call.doc.tabs
        marked == TabsWithMarker(tabs, IF HeadlinesCall THEN W_headlines ELSE W_cutlines)
    IN IF marked # {}
       THEN \A i \in 1..Len(last_call.result) : last_call.result[i].tab = First(marked)
       ELSE IF TabsWithNews(tabs) # {}
       THEN \A i \in 1..Len(last_call.result) :
              last_call.result[i].tab = First(TabsWithNews(tabs))
       ELSE last_call.result = <<>>

\* both tabs hold the Headlines marker and an entry line, and the one entry
\* returned is the first tab's
C19_Witness ==
  /\ HeadlinesCall
  /\ Len(last_call.doc.tabs) = 2
  /\ \A t \in 1..2 : \E i, j \in 1..Len(last_call.doc.tabs[t]) :
       /\ last_call.doc.tabs[t][i] = L_Headlines
       /\ last_call.doc.tabs[t][j] = L_Entry
       /\ i < j
  /\ Len(last_call.result) = 1
  /\ last_call.result[1].tab = 1

\* line n stands between an Insides marker line and the next Headlines
\* marker line
BetweenMarkers(lines, n) ==
  \E i \in 1..(n-1) : \E j \in (n+1)..Len(lines) :
    /\ Lower(lines[i]) = W_insides
    /\ Lower(lines[j]) = W_headlines
    /\ \A k \in (i+1)..(j-1) : Lower(lines[k]) # W_headlines

\* C20 as written: no entry of parse_headlines_doc comes from a line between
\* an Insides marker and the next Headlines marker, and no entry has a
\* category that only such a line names.
C20_AsWritten ==
  HeadlinesCall =>
    \A i \in 1..Len(last_call.result) :
      LET e == last_call.result[i]
          lines == LinesOfTab(last_call.doc, e.tab)
      IN /\ ~BetweenMarkers(lines, e.line_no)
         /\ e.category # T_Uncategorized =>
              \E k \in 1..(e.line_no - 1) :
                /\ RStripColon(lines[k]) = e.category
                /\ EndsWithColon(lines[k])
                /\ ~BetweenMarkers(lines, k)

\* C21 as written: no headline text returned by parse_headlines_doc holds
\* the marker "SH:" or a double colon.
C21_AsWritten ==
  HeadlinesCall =>
    \A i \in 1..Len(last_call.result) :
      /\ ~Contains(W_SH, last_call.result[i].headline)
      /\ ~Contains(<<":", ":">>, last_call.result[i].headline)

(***************************************************************************)
(* Properties of the redaction prompt                                      *)
(***************************************************************************)
RedactionCall == last_call.fn = "parse_redaction_doc"

\* the non-empty lines of all_lines from the line numbered start on
LinesFrom(all_lines, start) ==
  SelectSeq([i \in 1..Len(all_lines) |-> IF i >= start THEN all_lines[i] ELSE NoText],
            LAMBDA line : line # NoText)

\* text is the lines joined by newlines
IsJoinOf(text, lines) ==
  IF lines = <<>> THEN text = <<>> ELSE SplitFrom(text, 1, "\n") = lines

\* the step is an Enter pressed on a typed number
EnterOnNumber ==
  /\ AtPrompt
  /\ last_call.user_input # <<>>
  /\ last_call' # last_call
  /\ last_call'.key = "enter"

C25_AsWritten ==
  (RedactionCall /\ last_call.at = "returned" /\ last_call.prompted) =>
    /\ 1 <= last_call.start_line
    /\ last_call.start_line <= Len(last_call.all_lines)

\* C26 as written: when parse_redaction_doc raised inside, no post is
\* created with the text of the error message as its body.
C26_AsWritten ==
  \A i \in 1..Len(wp_posts) : wp_posts[i].content # "error_text"

(***************************************************************************)
(* Properties of the image upload                                          *)
(***************************************************************************)
UploadCall == last_call.fn = "upload_image_to_wordpress"

\* the positions of the upload requests in the log
RequestsAt(log) == {i \in 1..Len(log) : log[i].ev # "sleep"}

SheetUnread == pc # "start" /\ Len(rows) > 0 /\ row_idx = 0

\* C23: when the sheet could not be read main has ended: no row was
\* taken up, no redaction document was read, no summary was printed, and
\* the users, media, posts and sheet cells are as they were.
C23_Abort ==
  SheetUnread =>
    /\ pc = "done"
    /\ eligible_rows = <<>>
    /\ cur = 1
    /\ post_info = NoPostInfo
    /\ redaction = "None"
    /\ Recorded = <<>>
    /\ summary = NoSummary
    /\ wp_users = WpUsers0
    /\ wp_posts = <<>>
    /\ wp_media = 0
    /\ sheet_writes = <<>>

\* the read of a sheet with an eligible row failed
C23_Witness ==
  /\ SheetUnread
  /\ faults = 1
  /\ ScanRows(rows, Len(rows)).eligible_rows # <<>>

(***************************************************************************)
(* Properties of the sheet writes of a run                                 *)
(***************************************************************************)
\* the updateCells requests accepted for sheet row r
WritesOfRow(r) == {w \in 1..Len(sheet_writes) : sheet_writes[w].endRowIndex = r}

\* update_online_status was called for the row of the record p
WriteAttempted(p) == p.sheet_update_status \in {"Updated successfully", "Update failed"}

\* C27: every accepted write of the online cell belongs to a row whose
\* post exists with status publish; a row recorded as Draft, Skipped or
\* Failed, and the row in progress, has no write and no write attempt; a
\* row recorded as Published has exactly one attempt, whose write is in the
\* sheet when it was accepted.
C27_Writes ==
  /\ \A w \in 1..Len(sheet_writes) :
       \E j \in 1..Len(wp_posts) :
         /\ wp_posts[j].status = "publish"
         /\ wp_posts[j].row = sheet_writes[w].endRowIndex
  /\ \A i \in 1..Len(Recorded) :
       LET p == Recorded[i] IN
       IF p.status = "Published"
       THEN /\ WriteAttempted(p)
            /\ Cardinality(WritesOfRow(p.row)) =
                 (IF p.sheet_update_status = "Updated successfully" THEN 1 ELSE 0)
       ELSE /\ ~WriteAttempted(p)
            /\ WritesOfRow(p.row) = {}
  /\ pc \notin {"start", "loop", "done", "fatal"} =>
       /\ ~WriteAttempted(post_info)
       /\ WritesOfRow(post_info.row) = {}

\* a run that published one row, whose write was accepted, and created a
\* draft for another
C27_Witness ==
  /\ Len(successful_posts) = 2
  /\ successful_posts[1].status = "Published"
  /\ successful_posts[1].sheet_update_status = "Updated successfully"
  /\ successful_posts[2].status = "Draft"
  /\ Len(sheet_writes) = 1
  /\ Len(wp_posts) = 2

\* the rows get_eligible_rows finds in the sheet as it is now: the
\* eligible set of the next run of main
EligibleNow == {ScanRows(rows, Len(rows)).eligible_rows[i].row :
                  i \in 1..Len(ScanRows(rows, Len(rows)).eligible_rows)}

\* C28 as written: a row recorded as Published by a run is not eligible
\* in the sheet the run leaves behind, so the next run does not take it up.
C28_AsWritten ==
  \A i \in 1..Len(successful_posts) :
    successful_posts[i].status = "Published" => successful_posts[i].row \notin EligibleNow

(***************************************************************************)
(* Further properties of the taxonomy calls                                *)
(***************************************************************************)
\* C29 as written: a call of get_or_create_author_id sends a user-create
\* request only when the search was answered 200 and found no user.
C29_AsWritten ==
  (AuthorCall /\ \E k \in 1..Len(last_call.requests) : last_call.requests[k] = "POST users") =>
    /\ last_call.search = "ok"
    /\ SearchUsers(last_call.users, BeforeComma(Strip(last_call.author_name))) = <<>>

\* C30 as written: in get_category_ids a requested name that is empty
\* after trimming matches no category, so it adds no ID to the result.
C30_AsWritten ==
  CategoryCall =>
    \A i \in 1..Len(last_call.categories_list) :
      Strip(last_call.categories_list[i]) = <<>> => last_call.matches[i].stage = 0

====
